---- MODULE Spec2Model ----
(***************************************************************************)
(* Model of TaskFlowAI's unified data service                              *)
(* (src/services/databaseService.ts): a Local Store (browser localStorage) *)
(* and a remote document store (Firestore), with remote-first operations   *)
(* that fall back to the Local Store when the remote call fails.           *)
(***************************************************************************)
EXTENDS Integers, Sequences, FiniteSets, TLC

\* ---------------------------------------------------------------------------
\* Bounds and value domains
\* ---------------------------------------------------------------------------
MaxTaskId == 2

MaxContactId == 1

MaxTemplateId == 1

\* Distinct schedules a plan can carry.
MaxSchedule == 2

\* Calls in a run of the plan operations, and of all entity operations together.
MaxPlanOps == 3

MaxServiceOps == 2

\* Calls in a run of the auth operations.
MaxAuthOps == 4

GUEST == "guest-user"

UserIds == {GUEST, "user_1", "user_2"}

TaskIds == 1..MaxTaskId

Statuses == {"TODO", "IN_PROGRESS", "COMPLETED"}

Task == [id : TaskIds, userId : UserIds, status : Statuses]

\* Placeholder argument of operations that take no task.
NoTask == [id |-> 0, userId |-> "", status |-> ""]

ContactIds == 1..MaxContactId

\* userId and isActive of an EmailContact; the address never decides anything.
EmailContact == [id : ContactIds, userId : UserIds, isActive : BOOLEAN]

TemplateIds == 1..MaxTemplateId

\* A PlanTemplate's userId is optional: "" stands for an absent one.
PlanTemplate == [id : TemplateIds, userId : UserIds \cup {""}]

Dates == {"2024-01-01", "2024-01-02"}

\* schedule stands for the plan's content (schedule items and notes).
DailyPlan == [userId : UserIds, date : Dates, schedule : 1..MaxSchedule]

\* getDailyPlan's null.
NoPlan == [userId |-> "", date |-> "", schedule |-> 0]

Emails == {"demo@example.com", "ann@example.com"}

Passwords == {"password", "secret"}

Providers == {"google", "apple", "github"}

\* Ids the auth provider (uid) or the local simulation (`user_${Date.now()}`)
\* hands out.
NewUserIds == UserIds \ {GUEST}

\* A UserProfile; password "" stands for an absent or blank one.  joinedAt
\* never decides anything.
NoProfile == [id |-> "", name |-> "", email |-> "", password |-> ""]

GuestProfile ==
    [id |-> GUEST, name |-> "Guest User", email |-> "guest@taskflow.ai", password |-> ""]

\* Tasks the App holds in memory at one render.
MaxViewTasks == 3

\* Instants of a calendar day, and the last calendar day, of the model's clock.
TicksPerDay == 2

MaxDay == 2

Times == 0..((MaxDay + 1) * TicksPerDay - 1)

\* getTime() of an unparseable date string (NaN).
InvalidDate == -1

\* Creation instants.
MaxCreatedAt == 1

\* Titles (title stands for title and description) and search queries.
Titles == {"a", "B"}

SearchQueries == {"", "b"}

\* What groupTasks and getTodayProgress read of a Task.  The status is only
\* tested against COMPLETED, and createdAt is only read of COMPLETED tasks.
ViewFields ==
    {f \in [status : {"TODO", "COMPLETED"}, dueDate : Times \cup {InvalidDate},
            createdAt : 0..MaxCreatedAt, title : Titles] :
        f.status # "COMPLETED" => f.createdAt = 0}

ViewTask(id, f) ==
    [id |-> id, status |-> f.status, dueDate |-> f.dueDate, createdAt |-> f.createdAt,
     title |-> f.title]

\* A task list a render can find: distinct ids, here the positions.
ViewList(fields) == [i \in DOMAIN fields |-> ViewTask(i, fields[i])]

NoGroups == [overdue |-> <<>>, today |-> <<>>, upcoming |-> <<>>, completed |-> <<>>]

\* Tasks the analytics view is given at one render.
MaxHeatTasks == 9

\* The heatmap's loop runs over 7 days; 8 tasks a day are a full load.
WeekDays == 7

FullLoad == 8

\* The day of the analytics renders (the first of them), which leaves room for
\* the week before it.
HeatDay == WeekDays - 1

\* What getWeeklyHeatmap reads of a Task: created yesterday or today (day
\* HeatDay), due today, tomorrow or on no valid date.
HeatFields ==
    [status : {"TODO"}, title : {"a"},
     createdAt : {(HeatDay - 1) * TicksPerDay, HeatDay * TicksPerDay},
     dueDate : {HeatDay * TicksPerDay + 1, (HeatDay + 1) * TicksPerDay + 1, InvalidDate}]

\* Handler calls and responses in a run of the App.
MaxAppOps == 4

\* Handler calls in a run of the planner.
MaxPlannerOps == 4

\* useState(25 * 60): the length of a focus session, in seconds.
PomodoroStart == 25 * 60

\* The stored current-user profile: absent, unparseable, or a profile.
Stored(kind, profile) == [kind |-> kind, profile |-> profile]

VARIABLES
    isReal,          \* isFirebaseConfigured() at module load
    firestore,       \* TRUE iff the firestore handle was assigned
    auth,            \* TRUE iff the auth handle was assigned
    localTasks,      \* localStorage['tf_tasks'], a sequence of Task
    remoteTasks,     \* Firestore collection "tasks": documents keyed by id
    localContacts,   \* localStorage['tf_contacts']
    remoteContacts,  \* Firestore collection "contacts"
    localTemplates,  \* localStorage['tf_templates']
    remoteTemplates, \* Firestore collection "templates"
    localPlans,      \* localStorage['tf_daily_plans']
    remotePlans,     \* Firestore collection "daily_plans": [docId, data]
    localUsers,      \* localStorage['tf_users'], the simulated user table
    remoteUsers,     \* Firestore collection "users": documents keyed by id
    currentUser,     \* localStorage['tf_current_user_profile']
    appTasks,        \* App state `tasks`: the in-memory task list
    searchQuery,     \* App state `searchQuery`
    now,             \* `new Date()` of the last render
    groupedTasks,    \* groupTasks() of the last render
    progress,        \* getTodayProgress() of the last render
    pomodoroTime,    \* App state `pomodoroTime`, in seconds
    isTimerRunning,  \* App state `isTimerRunning`
    weeklyData,      \* AnalyticsView: getWeeklyHeatmap() of its last render
    appUser,         \* App state `user`: its id (PlannerView's prop userId)
    emailContacts,   \* App state `emailContacts`
    selectedDate,    \* PlannerView state `selectedDate`
    schedule,        \* PlannerView state `schedule` and `notes`; 0: empty
    inFlight,        \* data-service calls of the UI that have not resolved
    opsLeft,         \* calls the run may still make; negative: no limit
    last             \* the last data-service call and how it resolved

config == <<isReal, firestore, auth>>

taskVars == <<localTasks, remoteTasks>>

contactVars == <<localContacts, remoteContacts>>

templateVars == <<localTemplates, remoteTemplates>>

planVars == <<localPlans, remotePlans>>

authVars == <<localUsers, remoteUsers, currentUser>>

viewVars == <<appTasks, searchQuery, now, groupedTasks, progress>>

timerVars == <<pomodoroTime, isTimerRunning>>

\* State of the App outside the task list and its derivations.
plannerVars == <<selectedDate, schedule>>

uiVars == <<timerVars, weeklyData, appUser, emailContacts, plannerVars, inFlight>>

vars ==
    <<config, taskVars, contactVars, templateVars, planVars, authVars, viewVars,
      uiVars, opsLeft, last>>

\* Every call spends one of the calls the run has left.
Budget ==
    /\ opsLeft # 0
    /\ opsLeft' = IF opsLeft < 0 THEN opsLeft ELSE opsLeft - 1

TaskFrame ==
    Budget /\ UNCHANGED <<config, contactVars, templateVars, planVars, authVars, viewVars,
                         uiVars>>

ContactFrame ==
    Budget /\ UNCHANGED <<config, taskVars, templateVars, planVars, authVars, viewVars,
                         uiVars>>

TemplateFrame ==
    Budget /\ UNCHANGED <<config, taskVars, contactVars, planVars, authVars, viewVars,
                         uiVars>>

PlanFrame ==
    Budget /\ UNCHANGED <<config, taskVars, contactVars, templateVars, authVars, viewVars,
                         uiVars>>

AuthFrame ==
    Budget /\ UNCHANGED <<config, taskVars, contactVars, templateVars, planVars, viewVars,
                         uiVars>>

\* ---------------------------------------------------------------------------
\* Helpers
\* ---------------------------------------------------------------------------
Range(s) == {s[i] : i \in 1..Len(s)}

RECURSIVE SortById(_)
\* Documents of a query snapshot, in document-id order.
SortById(docs) ==
    IF docs = {} THEN <<>>
    ELSE LET d == CHOOSE x \in docs : \A y \in docs : x.id <= y.id
         IN  <<d>> \o SortById(docs \ {d})

\* Array.prototype.findIndex: first matching index, 0 when none (-1 in JS).
FindIndexById(s, id) ==
    IF \E i \in 1..Len(s) : s[i].id = id
    THEN CHOOSE i \in 1..Len(s) :
            /\ s[i].id = id
            /\ \A j \in 1..(i - 1) : s[j].id # id
    ELSE 0

useFirestore(userId) ==
    isReal /\ firestore /\ userId # "" /\ userId # GUEST

\* What a call records about its remote attempt.
RemoteTag(selected, succeeded) ==
    IF ~selected THEN "none" ELSE IF succeeded THEN "ok" ELSE "fail"

\* hit: the call found a record to return or to act on.
Call(op, arg, remote, threw, hit, result) ==
    [op |-> op, arg |-> arg, remote |-> remote, threw |-> threw, hit |-> hit,
     result |-> result]

\* ---------------------------------------------------------------------------
\* Local Store operations on tasks
\* ---------------------------------------------------------------------------
\* Mutant: the filter on userId is missing.
LocalGetTasks_Unfiltered(tasks, userId) == tasks

LocalGetTasks(tasks, userId) == SelectSeq(tasks, LAMBDA t : t.userId = userId)

\* Mutant: the local write is dropped.
LocalAddTask_Dropped(tasks, t) == tasks

LocalAddTask(tasks, t) == <<t>> \o tasks

\* Mutant: the replaced array is never saved.
LocalUpdateTask_NotSaved(tasks, t) == tasks

\* Mutant: a task that is not stored is inserted.
LocalUpdateTask_Upsert(tasks, t) ==
    LET index == FindIndexById(tasks, t.id)
    IN  IF index # 0 THEN [tasks EXCEPT ![index] = t] ELSE Append(tasks, t)

LocalUpdateTask(tasks, t) ==
    LET index == FindIndexById(tasks, t.id)
    IN  IF index # 0 THEN [tasks EXCEPT ![index] = t] ELSE tasks

\* Mutant: the filter keeps the tasks that come before the deleted one only.
LocalDeleteTask_Truncating(tasks, id) ==
    LET index == FindIndexById(tasks, id)
    IN  IF index # 0 THEN SubSeq(tasks, 1, index - 1) ELSE tasks

LocalDeleteTask(tasks, id) == SelectSeq(tasks, LAMBDA t : t.id # id)

\* Mutant: the filter forgets the status test.
LocalClearCompleted_AnyStatus(tasks, userId) ==
    SelectSeq(tasks, LAMBDA t : ~(t.userId = userId))

LocalClearCompleted(tasks, userId) ==
    SelectSeq(tasks, LAMBDA t : ~(t.userId = userId /\ t.status = "COMPLETED"))

\* ---------------------------------------------------------------------------
\* Remote document operations on the "tasks" collection
\* ---------------------------------------------------------------------------
\* setDoc(doc(firestore, "tasks", task.id), task): create or overwrite.
SetTaskDoc(docs, t) == {d \in docs : d.id # t.id} \cup {t}

\* updateDoc needs an existing document; it rewrites every field but id.
HasDoc(docs, id) == \E d \in docs : d.id = id

\* Mutant: the update leaves the status of the document as it was.
UpdateTaskDoc_StatusKept(docs, t) ==
    {IF d.id = t.id THEN [d EXCEPT !.userId = t.userId] ELSE d : d \in docs}

UpdateTaskDoc(docs, t) ==
    {IF d.id = t.id THEN [d EXCEPT !.userId = t.userId, !.status = t.status] ELSE d
        : d \in docs}

DeleteDoc(docs, id) == {d \in docs : d.id # id}

\* query(collection, where("userId", "==", userId))
QueryTasks(docs, userId) == SortById({d \in docs : d.userId = userId})

QueryCompleted(docs, userId) ==
    {d \in docs : d.userId = userId /\ d.status = "COMPLETED"}

\* ---------------------------------------------------------------------------
\* db.getTasks
\* ---------------------------------------------------------------------------
\* The list getTasks(userId) resolves to when its remote read succeeds (ok)
\* or fails (~ok).
GetTasksFrom(local, remote, userId, ok) ==
    IF useFirestore(userId) /\ ok
    THEN QueryTasks(remote, userId)
    ELSE LocalGetTasks(local, userId)

GetTasksResult(userId, ok) == GetTasksFrom(localTasks, remoteTasks, userId, ok)

GetTasks(userId, ok) ==
    /\ TaskFrame
    /\ last' = Call("getTasks", [NoTask EXCEPT !.userId = userId],
                    RemoteTag(useFirestore(userId), ok), FALSE,
                    GetTasksResult(userId, ok) # <<>>, GetTasksResult(userId, ok))
    /\ UNCHANGED <<localTasks, remoteTasks>>

\* ---------------------------------------------------------------------------
\* db.addTask
\* ---------------------------------------------------------------------------
\* Task ids are fresh uuids (TaskInput creates them with uuidv4()).
FreshTaskId(id) ==
    /\ ~HasDoc(remoteTasks, id)
    /\ ~HasDoc(Range(localTasks), id)

\* Mutant: the catch returns instead of falling through to the local write.
AddTask_NoFallback(t, ok) ==
    /\ TaskFrame
    /\ FreshTaskId(t.id)
    /\ IF useFirestore(t.userId)
       THEN /\ remoteTasks' = IF ok THEN SetTaskDoc(remoteTasks, t) ELSE remoteTasks
            /\ UNCHANGED localTasks
       ELSE /\ localTasks' = LocalAddTask(localTasks, t)
            /\ UNCHANGED remoteTasks
    /\ last' = Call("addTask", t, RemoteTag(useFirestore(t.userId), ok), FALSE, TRUE,
                    <<>>)

AddTask(t, ok) ==
    /\ TaskFrame
    /\ FreshTaskId(t.id)
    /\ IF useFirestore(t.userId) /\ ok
       THEN /\ remoteTasks' = SetTaskDoc(remoteTasks, t)
            /\ UNCHANGED localTasks
       ELSE /\ localTasks' = LocalAddTask(localTasks, t)
            /\ UNCHANGED remoteTasks
    /\ last' = Call("addTask", t, RemoteTag(useFirestore(t.userId), ok), FALSE, TRUE,
                    <<>>)

\* ---------------------------------------------------------------------------
\* db.updateTask
\* ---------------------------------------------------------------------------
UpdateDocOk(t, ok) == ok /\ HasDoc(remoteTasks, t.id)

UpdateTask(t, ok) ==
    /\ TaskFrame
    /\ IF useFirestore(t.userId) /\ UpdateDocOk(t, ok)
       THEN /\ remoteTasks' = UpdateTaskDoc(remoteTasks, t)
            /\ UNCHANGED localTasks
       ELSE /\ localTasks' = LocalUpdateTask(localTasks, t)
            /\ UNCHANGED remoteTasks
    /\ last' = Call("updateTask", t,
                    RemoteTag(useFirestore(t.userId), UpdateDocOk(t, ok)), FALSE,
                    \/ useFirestore(t.userId) /\ UpdateDocOk(t, ok)
                    \/ FindIndexById(localTasks, t.id) # 0,
                    <<>>)

\* ---------------------------------------------------------------------------
\* db.deleteTask
\* ---------------------------------------------------------------------------
\* The stored record a task id refers to: the local one, else the remote
\* document, else none.  A deleteTask call records the id and the owner.
StoredTask(id) ==
    IF HasDoc(Range(localTasks), id) THEN localTasks[FindIndexById(localTasks, id)]
    ELSE IF HasDoc(remoteTasks, id) THEN CHOOSE d \in remoteTasks : d.id = id
    ELSE [NoTask EXCEPT !.id = id]

DeleteUsesRemote == isReal /\ firestore

DeleteTask(id, ok) ==
    /\ TaskFrame
    /\ IF DeleteUsesRemote /\ ok
       THEN /\ remoteTasks' = DeleteDoc(remoteTasks, id)
            /\ UNCHANGED localTasks
       ELSE /\ localTasks' = LocalDeleteTask(localTasks, id)
            /\ UNCHANGED remoteTasks
    /\ last' = Call("deleteTask", [StoredTask(id) EXCEPT !.status = ""],
                    RemoteTag(DeleteUsesRemote, ok), FALSE,
                    IF DeleteUsesRemote /\ ok THEN HasDoc(remoteTasks, id)
                    ELSE HasDoc(Range(localTasks), id),
                    <<>>)

\* ---------------------------------------------------------------------------
\* db.clearCompletedTasks
\* ---------------------------------------------------------------------------
\* Mutant: the rejection of the query or of Promise.all is not caught.
ClearCompletedTasks_Uncaught(userId, queryOk, deleted) ==
    LET matched  == QueryCompleted(remoteTasks, userId)
        selected == useFirestore(userId)
        allDone  == queryOk /\ deleted = matched
    IN  /\ TaskFrame
        /\ deleted \subseteq matched
        /\ (~selected \/ ~queryOk) => deleted = {}
        /\ remoteTasks' = remoteTasks \ deleted
        /\ IF selected
           THEN UNCHANGED localTasks
           ELSE localTasks' = LocalClearCompleted(localTasks, userId)
        /\ last' = Call("clearCompletedTasks", [NoTask EXCEPT !.userId = userId],
                        RemoteTag(selected, allDone), selected /\ ~allDone,
                        deleted # {}, <<>>)

\* queryOk: the getDocs of the COMPLETED query succeeded; deleted: the matched
\* documents whose deleteDoc succeeded.  Promise.all resolves only when every
\* delete succeeded; any other outcome reaches the catch and the local path.
ClearCompletedTasks(userId, queryOk, deleted) ==
    LET matched  == QueryCompleted(remoteTasks, userId)
        selected == useFirestore(userId)
        allDone  == queryOk /\ deleted = matched
    IN  /\ TaskFrame
        /\ deleted \subseteq matched
        /\ (~selected \/ ~queryOk) => deleted = {}
        /\ remoteTasks' = remoteTasks \ deleted
        /\ IF selected /\ allDone
           THEN UNCHANGED localTasks
           ELSE localTasks' = LocalClearCompleted(localTasks, userId)
        /\ last' = Call("clearCompletedTasks", [NoTask EXCEPT !.userId = userId],
                        RemoteTag(selected, allDone), FALSE,
                        \/ deleted # {}
                        \/ ~(selected /\ allDone)
                           /\ LocalClearCompleted(localTasks, userId) # localTasks,
                        <<>>)

\* ---------------------------------------------------------------------------
\* Contacts: db.getContacts, addContact, updateContact, deleteContact
\* ---------------------------------------------------------------------------
NoContact == [id |-> 0, userId |-> "", isActive |-> FALSE]

LocalGetContacts(contacts, userId) == SelectSeq(contacts, LAMBDA c : c.userId = userId)

LocalAddContact(contacts, c) == Append(contacts, c)

LocalUpdateContact(contacts, c) ==
    LET index == FindIndexById(contacts, c.id)
    IN  IF index # 0 THEN [contacts EXCEPT ![index] = c] ELSE contacts

LocalDeleteContact(contacts, id) == SelectSeq(contacts, LAMBDA c : c.id # id)

UpdateContactDoc(docs, c) ==
    {IF d.id = c.id THEN [d EXCEPT !.userId = c.userId, !.isActive = c.isActive] ELSE d
        : d \in docs}

GetContactsResult(userId, ok) ==
    IF useFirestore(userId) /\ ok
    THEN SortById({d \in remoteContacts : d.userId = userId})
    ELSE LocalGetContacts(localContacts, userId)

GetContacts(userId, ok) ==
    /\ ContactFrame
    /\ last' = Call("getContacts", [NoContact EXCEPT !.userId = userId],
                    RemoteTag(useFirestore(userId), ok), FALSE,
                    GetContactsResult(userId, ok) # <<>>, GetContactsResult(userId, ok))
    /\ UNCHANGED contactVars

\* Contact ids are fresh uuids (App.addEmailContact).
FreshContactId(id) ==
    /\ ~HasDoc(remoteContacts, id)
    /\ ~HasDoc(Range(localContacts), id)

AddContact(c, ok) ==
    /\ ContactFrame
    /\ FreshContactId(c.id)
    /\ IF useFirestore(c.userId) /\ ok
       THEN /\ remoteContacts' = {d \in remoteContacts : d.id # c.id} \cup {c}
            /\ UNCHANGED localContacts
       ELSE /\ localContacts' = LocalAddContact(localContacts, c)
            /\ UNCHANGED remoteContacts
    /\ last' = Call("addContact", c, RemoteTag(useFirestore(c.userId), ok), FALSE, TRUE,
                    <<>>)

UpdateContact(c, ok) ==
    LET done == useFirestore(c.userId) /\ ok /\ HasDoc(remoteContacts, c.id)
    IN  /\ ContactFrame
        /\ IF done
           THEN /\ remoteContacts' = UpdateContactDoc(remoteContacts, c)
                /\ UNCHANGED localContacts
           ELSE /\ localContacts' = LocalUpdateContact(localContacts, c)
                /\ UNCHANGED remoteContacts
        /\ last' = Call("updateContact", c, RemoteTag(useFirestore(c.userId), done),
                        FALSE, done \/ FindIndexById(localContacts, c.id) # 0, <<>>)

DeleteContact(id, ok) ==
    /\ ContactFrame
    /\ IF DeleteUsesRemote /\ ok
       THEN /\ remoteContacts' = DeleteDoc(remoteContacts, id)
            /\ UNCHANGED localContacts
       ELSE /\ localContacts' = LocalDeleteContact(localContacts, id)
            /\ UNCHANGED remoteContacts
    /\ last' = Call("deleteContact", [NoContact EXCEPT !.id = id],
                    RemoteTag(DeleteUsesRemote, ok), FALSE,
                    IF DeleteUsesRemote /\ ok THEN HasDoc(remoteContacts, id)
                    ELSE HasDoc(Range(localContacts), id),
                    <<>>)

\* ---------------------------------------------------------------------------
\* Templates: db.getCustomTemplates, addTemplate, deleteTemplate
\* ---------------------------------------------------------------------------
NoTemplate == [id |-> 0, userId |-> ""]

LocalGetTemplates(templates, userId) ==
    SelectSeq(templates, LAMBDA t : t.userId = userId)

LocalAddTemplate(templates, t) == Append(templates, t)

LocalDeleteTemplate(templates, id) == SelectSeq(templates, LAMBDA t : t.id # id)

GetTemplatesResult(userId, ok) ==
    IF useFirestore(userId) /\ ok
    THEN SortById({d \in remoteTemplates : d.userId = userId})
    ELSE LocalGetTemplates(localTemplates, userId)

GetCustomTemplates(userId, ok) ==
    /\ TemplateFrame
    /\ last' = Call("getCustomTemplates", [NoTemplate EXCEPT !.userId = userId],
                    RemoteTag(useFirestore(userId), ok), FALSE,
                    GetTemplatesResult(userId, ok) # <<>>, GetTemplatesResult(userId, ok))
    /\ UNCHANGED templateVars

\* Template ids are fresh uuids (PlannerView).
FreshTemplateId(id) ==
    /\ ~HasDoc(remoteTemplates, id)
    /\ ~HasDoc(Range(localTemplates), id)

\* template.userId && useFirestore(template.userId)
TemplateUsesRemote(t) == t.userId # "" /\ useFirestore(t.userId)

AddTemplate(t, ok) ==
    /\ TemplateFrame
    /\ FreshTemplateId(t.id)
    /\ IF TemplateUsesRemote(t) /\ ok
       THEN /\ remoteTemplates' = {d \in remoteTemplates : d.id # t.id} \cup {t}
            /\ UNCHANGED localTemplates
       ELSE /\ localTemplates' = LocalAddTemplate(localTemplates, t)
            /\ UNCHANGED remoteTemplates
    /\ last' = Call("addTemplate", t, RemoteTag(TemplateUsesRemote(t), ok), FALSE, TRUE,
                    <<>>)

DeleteTemplate(id, ok) ==
    /\ TemplateFrame
    /\ IF DeleteUsesRemote /\ ok
       THEN /\ remoteTemplates' = DeleteDoc(remoteTemplates, id)
            /\ UNCHANGED localTemplates
       ELSE /\ localTemplates' = LocalDeleteTemplate(localTemplates, id)
            /\ UNCHANGED remoteTemplates
    /\ last' = Call("deleteTemplate", [NoTemplate EXCEPT !.id = id],
                    RemoteTag(DeleteUsesRemote, ok), FALSE,
                    IF DeleteUsesRemote /\ ok THEN HasDoc(remoteTemplates, id)
                    ELSE HasDoc(Range(localTemplates), id),
                    <<>>)

\* ---------------------------------------------------------------------------
\* Daily plans: db.getDailyPlan, saveDailyPlan
\* ---------------------------------------------------------------------------
SamePair(p, userId, date) == p.userId = userId /\ p.date = date

\* Array.prototype.find / findIndex on (userId, date): first match, 0 when none.
FindPlanIndex(plans, userId, date) ==
    IF \E i \in 1..Len(plans) : SamePair(plans[i], userId, date)
    THEN CHOOSE i \in 1..Len(plans) :
            /\ SamePair(plans[i], userId, date)
            /\ \A j \in 1..(i - 1) : ~SamePair(plans[j], userId, date)
    ELSE 0

LocalGetPlan(plans, userId, date) ==
    LET index == FindPlanIndex(plans, userId, date)
    IN  IF index # 0 THEN plans[index] ELSE NoPlan

\* Mutant: the found index is ignored and the plan is always pushed.
LocalSavePlan_AlwaysPush(plans, plan) == Append(plans, plan)

LocalSavePlan(plans, plan) ==
    LET index == FindPlanIndex(plans, plan.userId, plan.date)
    IN  IF index # 0 THEN [plans EXCEPT ![index] = plan] ELSE Append(plans, plan)

\* `${plan.userId}_${plan.date}`
PlanDocId(plan) == plan.userId \o "_" \o plan.date

SetPlanDoc(docs, plan) ==
    {d \in docs : d.docId # PlanDocId(plan)}
        \cup {[docId |-> PlanDocId(plan), data |-> plan]}

\* query(where userId ==, where date ==): s.empty ? null : s.docs[0].data()
QueryPlan(docs, userId, date) ==
    LET found == {d \in docs : SamePair(d.data, userId, date)}
    IN  IF found = {} THEN NoPlan ELSE (CHOOSE d \in found : TRUE).data

GetDailyPlanFrom(local, remote, userId, date, ok) ==
    IF useFirestore(userId) /\ ok
    THEN QueryPlan(remote, userId, date)
    ELSE LocalGetPlan(local, userId, date)

GetDailyPlanResult(userId, date, ok) ==
    GetDailyPlanFrom(localPlans, remotePlans, userId, date, ok)

GetDailyPlan(userId, date, ok) ==
    /\ PlanFrame
    /\ last' = Call("getDailyPlan", [NoPlan EXCEPT !.userId = userId, !.date = date],
                    RemoteTag(useFirestore(userId), ok), FALSE,
                    GetDailyPlanResult(userId, date, ok) # NoPlan,
                    GetDailyPlanResult(userId, date, ok))
    /\ UNCHANGED planVars

SaveDailyPlan(plan, ok) ==
    /\ PlanFrame
    /\ IF useFirestore(plan.userId) /\ ok
       THEN /\ remotePlans' = SetPlanDoc(remotePlans, plan)
            /\ UNCHANGED localPlans
       ELSE /\ localPlans' = LocalSavePlan(localPlans, plan)
            /\ UNCHANGED remotePlans
    /\ last' = Call("saveDailyPlan", plan, RemoteTag(useFirestore(plan.userId), ok),
                    FALSE,
                    IF useFirestore(plan.userId) /\ ok
                    THEN QueryPlan(remotePlans, plan.userId, plan.date) # NoPlan
                    ELSE FindPlanIndex(localPlans, plan.userId, plan.date) # 0,
                    <<>>)

\* ---------------------------------------------------------------------------
\* Auth and user profile operations
\* ---------------------------------------------------------------------------
AuthUsesRemote == isReal /\ auth

\* setDoc(doc(firestore, "users", id), profile): create or overwrite.
SetUserDoc(docs, p) == {d \in docs : d.id # p.id} \cup {p}

\* setDoc(..., { merge: true }): fields of the profile overwrite the document's.
MergeUserDoc(docs, p) ==
    IF HasDoc(docs, p.id)
    THEN {IF d.id = p.id
          THEN [d EXCEPT !.name = p.name, !.email = p.email,
                         !.password = IF p.password # "" THEN p.password ELSE @]
          ELSE d : d \in docs}
    ELSE docs \cup {p}

\* Mutant: the new guest profile is returned without being persisted.
GetCurrentUser_NotPersisted ==
    /\ AuthFrame
    /\ UNCHANGED currentUser
    /\ last' = IF currentUser.kind = "profile"
               THEN Call("getCurrentUser", NoProfile, "none", FALSE, TRUE,
                         currentUser.profile)
               ELSE Call("getCurrentUser", NoProfile, "none", FALSE, FALSE, GuestProfile)
    /\ UNCHANGED <<localUsers, remoteUsers>>

\* db.getCurrentUser: the stored profile when one parses, else a new guest
\* profile, which is persisted.
GetCurrentUser ==
    /\ AuthFrame
    /\ IF currentUser.kind = "profile"
       THEN /\ UNCHANGED currentUser
            /\ last' = Call("getCurrentUser", NoProfile, "none", FALSE, TRUE,
                            currentUser.profile)
       ELSE /\ currentUser' = Stored("profile", GuestProfile)
            /\ last' = Call("getCurrentUser", NoProfile, "none", FALSE, FALSE,
                            GuestProfile)
    /\ UNCHANGED <<localUsers, remoteUsers>>

\* db.updateUserProfile: local write first, then the remote merge.
UpdateUserProfile(user, ok) ==
    /\ AuthFrame
    /\ currentUser' = Stored("profile", user)
    /\ remoteUsers' = IF useFirestore(user.id) /\ ok
                      THEN MergeUserDoc(remoteUsers, user)
                      ELSE remoteUsers
    /\ UNCHANGED localUsers
    /\ last' = Call("updateUserProfile", user, RemoteTag(useFirestore(user.id), ok),
                    FALSE, TRUE, user)

\* Mutant: the lookup never finds the email.
EmailTaken_Never(users, email) == FALSE

\* users.find(u => u.email === email)
EmailTaken(users, email) == \E i \in 1..Len(users) : users[i].email = email

\* db.registerUser.  authOk: createUserWithEmailAndPassword resolved; newId: the
\* uid it returned, or the id of the local simulation; docOk: the setDoc of
\* the profile succeeded.
RegisterUser(user, authOk, newId, docOk) ==
    /\ AuthFrame
    /\ IF AuthUsesRemote
       THEN IF authOk
            THEN LET newUserProfile == [user EXCEPT !.id = newId, !.password = ""]
                 IN  /\ remoteUsers' = IF firestore /\ docOk
                                       THEN SetUserDoc(remoteUsers, newUserProfile)
                                       ELSE remoteUsers
                     /\ UNCHANGED <<localUsers, currentUser>>
                     /\ last' = Call("registerUser", user, "ok", FALSE, TRUE,
                                     newUserProfile)
            ELSE /\ UNCHANGED authVars
                 /\ last' = Call("registerUser", user, "fail", TRUE, FALSE, NoProfile)
       ELSE IF EmailTaken(localUsers, user.email)
            THEN /\ UNCHANGED authVars
                 /\ last' = Call("registerUser", user, "none", TRUE, FALSE, NoProfile)
            ELSE LET newUser == [user EXCEPT !.id = newId]
                 IN  /\ localUsers' = Append(localUsers, newUser)
                     /\ currentUser' = Stored("profile", newUser)
                     /\ UNCHANGED remoteUsers
                     /\ last' = Call("registerUser", user, "none", FALSE, TRUE, newUser)

\* email.split('@')[0]
EmailPrefix(email) == IF email = "demo@example.com" THEN "demo" ELSE "ann"

\* Mutant: the backdoor resolves to a registered-user id.
DemoUser_NotGuest ==
    [id |-> "user_1", name |-> "Guest User", email |-> "demo@example.com",
     password |-> ""]

DemoUser ==
    [id |-> GUEST, name |-> "Guest User", email |-> "demo@example.com", password |-> ""]

\* users.find(u => u.email === email && u.password === pass): index, 0 when none.
FindUser(users, email, pass) ==
    IF \E i \in 1..Len(users) : users[i].email = email /\ users[i].password = pass
    THEN CHOOSE i \in 1..Len(users) :
            /\ users[i].email = email /\ users[i].password = pass
            /\ \A j \in 1..(i - 1) : ~(users[j].email = email /\ users[j].password = pass)
    ELSE 0

\* db.loginUser.  authOk: signInWithEmailAndPassword resolved; uid,
\* displayName: what it returned ("": no display name).
LoginUser(email, pass, authOk, uid, displayName) ==
    LET cred == [id |-> "", name |-> "", email |-> email, password |-> pass]
    IN  /\ AuthFrame
        /\ IF AuthUsesRemote
           THEN /\ UNCHANGED authVars
                /\ last' = IF authOk
                           THEN Call("loginUser", cred, "ok", FALSE, TRUE,
                                     [id |-> uid,
                                      name |-> IF displayName # "" THEN displayName
                                               ELSE EmailPrefix(email),
                                      email |-> email, password |-> ""])
                           ELSE Call("loginUser", cred, "fail", TRUE, FALSE, NoProfile)
           ELSE IF email = "demo@example.com" /\ pass = "password"
                THEN /\ currentUser' = Stored("profile", DemoUser)
                     /\ UNCHANGED <<localUsers, remoteUsers>>
                     /\ last' = Call("loginUser", cred, "none", FALSE, TRUE, DemoUser)
                ELSE IF FindUser(localUsers, email, pass) = 0
                     THEN /\ UNCHANGED authVars
                          /\ last' = Call("loginUser", cred, "none", TRUE, FALSE,
                                          NoProfile)
                     ELSE LET user == localUsers[FindUser(localUsers, email, pass)]
                          IN  /\ currentUser' = Stored("profile", user)
                              /\ UNCHANGED <<localUsers, remoteUsers>>
                              /\ last' = Call("loginUser", cred, "none", FALSE, TRUE,
                                              user)

\* db.resetPassword.  ok: sendPasswordResetEmail resolved.
ResetPassword(email, ok) ==
    /\ AuthFrame
    /\ UNCHANGED authVars
    /\ last' = Call("resetPassword", [NoProfile EXCEPT !.email = email],
                    RemoteTag(AuthUsesRemote, ok), AuthUsesRemote /\ ~ok, FALSE,
                    NoProfile)

\* providerName.charAt(0).toUpperCase() + providerName.slice(1) + " User"
ProviderUserName(providerName) ==
    IF providerName = "google" THEN "Google User"
    ELSE IF providerName = "apple" THEN "Apple User"
    ELSE "Github User"

\* db.socialLogin.  authOk: signInWithPopup resolved with uid; docOk: the
\* setDoc of the profile succeeded.
SocialLogin(providerName, authOk, uid, docOk) ==
    LET arg == [NoProfile EXCEPT !.name = providerName]
    IN  /\ AuthFrame
        /\ IF AuthUsesRemote
           THEN IF authOk
                THEN LET profile == [id |-> uid, name |-> "User", email |-> "",
                                     password |-> ""]
                     IN  /\ remoteUsers' = IF firestore /\ docOk
                                           THEN MergeUserDoc(remoteUsers, profile)
                                           ELSE remoteUsers
                         /\ UNCHANGED <<localUsers, currentUser>>
                         /\ last' = Call("socialLogin", arg, "ok", FALSE, TRUE, profile)
                ELSE /\ UNCHANGED authVars
                     /\ last' = Call("socialLogin", arg, "fail", TRUE, FALSE, NoProfile)
           ELSE LET profile == [id |-> "social_" \o providerName,
                                name |-> ProviderUserName(providerName),
                                email |-> "user@" \o providerName \o ".com",
                                password |-> ""]
                IN  /\ currentUser' = Stored("profile", profile)
                    /\ UNCHANGED <<localUsers, remoteUsers>>
                    /\ last' = Call("socialLogin", arg, "none", FALSE, TRUE, profile)

\* db.logout.  ok: signOut resolved.
Logout(ok) ==
    /\ AuthFrame
    /\ IF AuthUsesRemote /\ ~ok
       THEN /\ UNCHANGED currentUser
            /\ last' = Call("logout", NoProfile, "fail", TRUE, FALSE, NoProfile)
       ELSE /\ currentUser' = Stored("absent", NoProfile)
            /\ last' = Call("logout", NoProfile, RemoteTag(AuthUsesRemote, ok), FALSE,
                            currentUser.kind # "absent", NoProfile)
    /\ UNCHANGED <<localUsers, remoteUsers>>

\* ---------------------------------------------------------------------------
\* Task grouping and progress (App.groupTasks, App.getTodayProgress)
\* ---------------------------------------------------------------------------
\* isNaN(date.getTime()) is false.
IsValidDate(d) == d # InvalidDate

\* Date.prototype.toDateString: the calendar day; "Invalid Date" has none.
ToDateString(d) == IF IsValidDate(d) THEN d \div TicksPerDay ELSE InvalidDate

\* Mutant: an invalid date compares as earlier than any date.
DateBefore_InvalidFirst(a, b) == ~IsValidDate(a) \/ (IsValidDate(b) /\ a < b)

\* a < b on two Dates: false when either is invalid.
DateBefore(a, b) == IsValidDate(a) /\ IsValidDate(b) /\ a < b

\* String.prototype.toLowerCase on the strings of the model.
ToLowerCase(str) == IF str = "B" THEN "b" ELSE str

\* String.prototype.includes on strings of at most one character.
Includes(str, sub) == sub = "" \/ str = sub

MatchesSearch(t, query) == Includes(ToLowerCase(t.title), ToLowerCase(query))

\* Mutant: the search box is ignored.
FilterTasks_Unfiltered(list, query) == list

FilterTasks(list, query) == SelectSeq(list, LAMBDA t : MatchesSearch(t, query))

\* Mutant: a task is overdue as soon as its due instant has passed.
BucketOf_ByInstant(t, at) ==
    IF t.status = "COMPLETED" THEN "completed"
    ELSE IF DateBefore(t.dueDate, at) THEN "overdue"
    ELSE IF ToDateString(t.dueDate) = ToDateString(at) THEN "today"
    ELSE "upcoming"

\* The bucket the forEach of groupTasks pushes a task to.
BucketOf(t, at) ==
    IF t.status = "COMPLETED" THEN "completed"
    ELSE IF DateBefore(t.dueDate, at) /\ ToDateString(t.dueDate) # ToDateString(at)
         THEN "overdue"
    ELSE IF ToDateString(t.dueDate) = ToDateString(at) THEN "today"
    ELSE "upcoming"

Bucket(list, at, name) == SelectSeq(list, LAMBDA t : BucketOf(t, at) = name)

\* The comparators, as Array.prototype.sort reads them: a NaN result is +0.
Sorter(a, b) ==
    IF IsValidDate(a.dueDate) /\ IsValidDate(b.dueDate) THEN a.dueDate - b.dueDate ELSE 0

ByCreatedAtDesc(a, b) == b.createdAt - a.createdAt

\* The results of a comparator on the elements of an array, by position.
Compared(list, name) ==
    [i, j \in 1..Len(list) |->
        IF name = "sorter" THEN Sorter(list[i], list[j])
        ELSE ByCreatedAtDesc(list[i], list[j])]

\* A consistent comparator orders the values of the array in classes.
IsConsistent(list, cmp) ==
    \A i, j, k \in 1..Len(list) :
        /\ cmp[i, j] = 0 /\ cmp[j, k] = 0 => cmp[i, k] = 0
        /\ cmp[i, j] < 0 /\ cmp[j, k] = 0 => cmp[i, k] < 0
        /\ cmp[i, j] = 0 /\ cmp[j, k] < 0 => cmp[i, k] < 0

\* Position of list[i] in the stable sort of list.
SortedIndex(list, cmp, i) ==
    1 + Cardinality({j \in 1..Len(list) : cmp[j, i] < 0 \/ (cmp[j, i] = 0 /\ j < i)})

StableSort(list, cmp) ==
    [r \in 1..Len(list) |->
        list[CHOOSE i \in 1..Len(list) : SortedIndex(list, cmp, i) = r]]

\* Array.prototype.sort: stable for a consistent comparator, otherwise the
\* order is implementation-defined (any arrangement of the elements).
ArraySort(list, name) ==
    LET cmp == Compared(list, name)
    IN  IF IsConsistent(list, cmp) THEN {StableSort(list, cmp)}
        ELSE {[r \in 1..Len(list) |-> list[p[r]]] : p \in Permutations(1..Len(list))}

\* The values groupTasks() can return.
GroupTasks(list, query, at) ==
    LET filteredTasks == FilterTasks(list, query)
    IN  {[overdue |-> o, today |-> t, upcoming |-> u, completed |-> c] :
            o \in ArraySort(Bucket(filteredTasks, at, "overdue"), "sorter"),
            t \in ArraySort(Bucket(filteredTasks, at, "today"), "sorter"),
            u \in ArraySort(Bucket(filteredTasks, at, "upcoming"), "sorter"),
            c \in ArraySort(Bucket(filteredTasks, at, "completed"), "byCreatedAtDesc")}

\* Math.round(num / den) for num >= 0, den > 0: halves round up.
MathRound(num, den) == (2 * num + den) \div (2 * den)

\* Mutant: progress is taken over the tasks that are not completed.
TodayTasks_NotCompleted(list, at) ==
    SelectSeq(list, LAMBDA t : /\ ToDateString(t.dueDate) = ToDateString(at)
                               /\ t.status # "COMPLETED")

TodayTasks(list, at) ==
    SelectSeq(list, LAMBDA t : ToDateString(t.dueDate) = ToDateString(at))

GetTodayProgress(list, at) ==
    LET todayTasks     == TodayTasks(list, at)
        completedToday == Len(SelectSeq(todayTasks, LAMBDA t : t.status = "COMPLETED"))
    IN  IF Len(todayTasks) = 0 THEN 0
        ELSE MathRound(completedToday * 100, Len(todayTasks))

\* One render of the App: both derivations run on the current state.
Render(at) ==
    /\ now' = at
    /\ groupedTasks' \in GroupTasks(appTasks, searchQuery, at)
    /\ progress' = GetTodayProgress(appTasks, at)
    /\ last' = Call("render", NoTask, "none", FALSE, appTasks # <<>>, <<>>)
    /\ UNCHANGED <<appTasks, searchQuery, opsLeft>>
    /\ UNCHANGED <<config, taskVars, contactVars, templateVars, planVars, authVars,
                   uiVars>>

\* loadUserData's read of the task list and the render that follows it:
\* setTasks(await db.getTasks(userId)), then both derivations.
ListAndBucket(userId, ok, at) ==
    /\ Budget
    /\ appTasks' = GetTasksResult(userId, ok)
    /\ now' = at
    /\ groupedTasks' \in GroupTasks(appTasks', searchQuery, at)
    /\ progress' = GetTodayProgress(appTasks', at)
    /\ last' = Call("render", [NoTask EXCEPT !.userId = userId],
                    RemoteTag(useFirestore(userId), ok), FALSE, appTasks' # <<>>, <<>>)
    /\ UNCHANGED <<searchQuery, uiVars>>
    /\ UNCHANGED <<config, taskVars, contactVars, templateVars, planVars, authVars>>

\* ---------------------------------------------------------------------------
\* Weekly heatmap (AnalyticsView.getWeeklyHeatmap)
\* ---------------------------------------------------------------------------
\* d.setDate(d.getDate() - i): the same time of day, i calendar days earlier.
DaysAgo(at, i) == at - i * TicksPerDay

\* Mutant: a task created and due on the day is counted for both.
ActivityCount_Twice(list, d) ==
    Len(SelectSeq(list, LAMBDA t : ToDateString(t.createdAt) = ToDateString(d)))
        + Len(SelectSeq(list, LAMBDA t : ToDateString(t.dueDate) = ToDateString(d)))

ActivityCount(list, d) ==
    Len(SelectSeq(list, LAMBDA t : \/ ToDateString(t.createdAt) = ToDateString(d)
                                   \/ ToDateString(t.dueDate) = ToDateString(d)))

\* Math.min((activityCount / 8) * 100, 100), in eighths of a percent: the
\* division by 8 and the product are exact in doubles.
Percentage(activityCount) ==
    IF activityCount * 100 < 100 * FullLoad THEN activityCount * 100 ELSE 100 * FullLoad

\* The entries in the order of the loop, i = 6 down to 0.  day stands for
\* dayStr, of which the entry carries the weekday.
GetWeeklyHeatmap(list, at) ==
    [k \in 1..WeekDays |->
        LET d == DaysAgo(at, WeekDays - k)
        IN  [day |-> ToDateString(d), value |-> Percentage(ActivityCount(list, d)),
             count |-> ActivityCount(list, d)]]

\* One render of the analytics view on the App's task list.
RenderAnalytics(at) ==
    /\ now' = at
    /\ weeklyData' = GetWeeklyHeatmap(appTasks, at)
    /\ last' = Call("analytics", NoTask, "none", FALSE, appTasks # <<>>, <<>>)
    /\ UNCHANGED <<appTasks, searchQuery, groupedTasks, progress, timerVars, opsLeft>>
    /\ UNCHANGED <<appUser, emailContacts, plannerVars, inFlight>>
    /\ UNCHANGED <<config, taskVars, contactVars, templateVars, planVars, authVars>>

\* ---------------------------------------------------------------------------
\* Pomodoro timer (App: the timer useEffect and toggleTimer)
\* ---------------------------------------------------------------------------
\* Mutant: the effect never stops the timer.
TimerEffect_NeverStops(running, time) == running

\* isTimerRunning once the effect has run for a committed (running, time):
\* it keeps an interval going while running and time > 0, and stops the timer
\* when time is 0.
TimerEffect(running, time) ==
    IF running /\ time > 0 THEN running
    ELSE IF time = 0 THEN FALSE
    ELSE running

TimerFrame ==
    UNCHANGED <<config, taskVars, contactVars, templateVars, planVars, authVars,
                viewVars, weeklyData, appUser, emailContacts, plannerVars, inFlight,
                opsLeft>>

\* toggleTimer, then the effect.
ToggleTimer ==
    /\ isTimerRunning' = TimerEffect(~isTimerRunning, pomodoroTime)
    /\ UNCHANGED pomodoroTime
    /\ last' = Call("toggleTimer", NoTask, "none", FALSE, isTimerRunning', <<>>)
    /\ TimerFrame

\* The interval callback, which exists only while the effect has set it, then
\* the effect.
Tick ==
    /\ isTimerRunning /\ pomodoroTime > 0
    /\ pomodoroTime' = pomodoroTime - 1
    /\ isTimerRunning' = TimerEffect(isTimerRunning, pomodoroTime')
    /\ last' = Call("tick", NoTask, "none", FALSE, isTimerRunning', <<>>)
    /\ TimerFrame

\* ---------------------------------------------------------------------------
\* App handlers: loadUserData, addTask, updateTask, deleteTask,
\* handleLoginSuccess, handleLogout.  A data-service call that stays on the
\* Local Store awaits nothing and has resolved before the next event; one
\* that goes to the remote backend stays in flight until its response.
\* ---------------------------------------------------------------------------
AppCall(op, userId, task) == [op |-> op, userId |-> userId, task |-> task]

AppFrame ==
    /\ Budget
    /\ UNCHANGED <<config, contactVars, templateVars, planVars, localUsers, remoteUsers,
                   searchQuery, now, groupedTasks, progress, timerVars, weeklyData,
                   plannerVars>>

\* loadUserData(userId) up to its await.
LoadUserData(userId) ==
    IF useFirestore(userId)
    THEN /\ inFlight' = inFlight \cup {AppCall("loadUserData", userId, NoTask)}
         /\ UNCHANGED <<appTasks, emailContacts>>
    ELSE /\ appTasks' = LocalGetTasks(localTasks, userId)
         /\ emailContacts' = LocalGetContacts(localContacts, userId)
         /\ UNCHANGED inFlight

\* The continuation of loadUserData once Promise.all has resolved.
LoadResolves(call, tasksOk, contactsOk) ==
    /\ call \in inFlight
    /\ call.op = "loadUserData"
    /\ inFlight' = inFlight \ {call}
    /\ appTasks' = GetTasksResult(call.userId, tasksOk)
    /\ emailContacts' = GetContactsResult(call.userId, contactsOk)
    /\ last' = Call("loadUserData", [NoTask EXCEPT !.userId = call.userId],
                    RemoteTag(TRUE, tasksOk), FALSE, appTasks' # <<>>, <<>>)
    /\ UNCHANGED <<appUser, currentUser, taskVars>>
    /\ AppFrame

\* handleLoginSuccess: setUser, then the effect on [user.id].  The login and
\* signup pages open from the Login button, which only the guest is shown.
HandleLoginSuccess(userId) ==
    /\ appUser = GUEST
    /\ userId # GUEST
    /\ appUser' = userId
    /\ LoadUserData(userId)
    /\ last' = Call("handleLoginSuccess", [NoTask EXCEPT !.userId = userId],
                    RemoteTag(useFirestore(userId), TRUE), FALSE, TRUE, <<>>)
    /\ UNCHANGED <<currentUser, taskVars>>
    /\ AppFrame

\* handleLogout, behind the Logout button a signed-in user is shown:
\* db.logout (ok: signOut resolved), db.getCurrentUser, setUser, then the
\* effect on [user.id].
HandleLogout(ok) ==
    /\ appUser # GUEST
    /\ IF AuthUsesRemote /\ ~ok
       THEN UNCHANGED <<appUser, currentUser, appTasks, emailContacts, inFlight>>
       ELSE /\ currentUser' = Stored("profile", GuestProfile)
            /\ appUser' = GUEST
            /\ LoadUserData(GUEST)
    /\ last' = Call("handleLogout", NoTask, RemoteTag(AuthUsesRemote, ok),
                    AuthUsesRemote /\ ~ok, FALSE, <<>>)
    /\ UNCHANGED taskVars
    /\ AppFrame

\* uuidv4(): an id no task, held or stored or in a call in flight, has.
FreshAppTaskId(id) ==
    /\ FreshTaskId(id)
    /\ ~HasDoc(Range(appTasks), id)
    /\ \A call \in inFlight : call.task.id # id

\* The store effects of db.addTask, db.updateTask and db.deleteTask.
AddTaskWrite(t, ok) ==
    IF useFirestore(t.userId) /\ ok
    THEN /\ remoteTasks' = SetTaskDoc(remoteTasks, t)
         /\ UNCHANGED localTasks
    ELSE /\ localTasks' = LocalAddTask(localTasks, t)
         /\ UNCHANGED remoteTasks

UpdateTaskWrite(t, ok) ==
    IF useFirestore(t.userId) /\ UpdateDocOk(t, ok)
    THEN /\ remoteTasks' = UpdateTaskDoc(remoteTasks, t)
         /\ UNCHANGED localTasks
    ELSE /\ localTasks' = LocalUpdateTask(localTasks, t)
         /\ UNCHANGED remoteTasks

DeleteTaskWrite(id, ok) ==
    IF DeleteUsesRemote /\ ok
    THEN /\ remoteTasks' = DeleteDoc(remoteTasks, id)
         /\ UNCHANGED localTasks
    ELSE /\ localTasks' = LocalDeleteTask(localTasks, id)
         /\ UNCHANGED remoteTasks

\* A task handler: the optimistic setTasks, then the data-service call, whose
\* write is done at once when it stays on the Local Store.
TaskHandler(op, t, held, usesRemote) ==
    /\ appTasks' = held
    /\ IF usesRemote
       THEN /\ inFlight' = inFlight \cup {AppCall(op, t.userId, t)}
            /\ UNCHANGED taskVars
       ELSE /\ UNCHANGED inFlight
            /\ IF op = "addTask" THEN AddTaskWrite(t, TRUE)
               ELSE IF op = "updateTask" THEN UpdateTaskWrite(t, TRUE)
               ELSE DeleteTaskWrite(t.id, TRUE)
    /\ last' = Call(op, t, RemoteTag(usesRemote, TRUE), FALSE, TRUE, <<>>)
    /\ UNCHANGED <<appUser, currentUser, emailContacts>>
    /\ AppFrame

\* App.addTask: newTask = { ...taskData, userId: user.id }.
AppAddTask(id) ==
    LET newTask == [id |-> id, userId |-> appUser, status |-> "TODO"]
    IN  /\ FreshAppTaskId(id)
        /\ TaskHandler("addTask", newTask, <<newTask>> \o appTasks, useFirestore(appUser))

\* App.updateTask with a task of the list whose status TaskItem changed.
AppUpdateTask(updatedTask) ==
    /\ \E i \in 1..Len(appTasks) :
          /\ appTasks[i].id = updatedTask.id
          /\ appTasks[i].userId = updatedTask.userId
          /\ appTasks[i].status # updatedTask.status
    /\ TaskHandler("updateTask", updatedTask,
                   [i \in 1..Len(appTasks) |->
                       IF appTasks[i].id = updatedTask.id THEN updatedTask ELSE appTasks[i]],
                   useFirestore(updatedTask.userId))

\* App.deleteTask with the id of a task of the list.
AppDeleteTask(id) ==
    /\ HasDoc(Range(appTasks), id)
    /\ TaskHandler("deleteTask", [NoTask EXCEPT !.id = id],
                   SelectSeq(appTasks, LAMBDA t : t.id # id), DeleteUsesRemote)

\* The response of a task call in flight: its write, on the remote store (ok)
\* or on the Local Store after the remote failure.
TaskCallResolves(call, ok) ==
    /\ call \in inFlight
    /\ call.op \in {"addTask", "updateTask", "deleteTask"}
    /\ inFlight' = inFlight \ {call}
    /\ IF call.op = "addTask" THEN AddTaskWrite(call.task, ok)
       ELSE IF call.op = "updateTask" THEN UpdateTaskWrite(call.task, ok)
       ELSE DeleteTaskWrite(call.task.id, ok)
    /\ last' = Call(call.op \o "Resolves", call.task, RemoteTag(TRUE, ok), FALSE, TRUE,
                    <<>>)
    /\ UNCHANGED <<appUser, currentUser, appTasks, emailContacts>>
    /\ AppFrame

\* ---------------------------------------------------------------------------
\* Planner (PlannerView: loadPlanForDate, handleGenerate, handleReset)
\* ---------------------------------------------------------------------------
\* A db.getDailyPlan(userId, date) that loadPlanForDate awaits.
PlanLoad(userId, date) == [op |-> "getDailyPlan", userId |-> userId, date |-> date]

\* savedPlan ? savedPlan.schedule : []
ShownSchedule(savedPlan) == IF savedPlan = NoPlan THEN 0 ELSE savedPlan.schedule

PlannerFrame ==
    /\ Budget
    /\ UNCHANGED <<config, taskVars, contactVars, templateVars, authVars, viewVars,
                   timerVars, weeklyData, appUser, emailContacts>>

\* The date input's onChange, then the effect on [selectedDate], which calls
\* loadPlanForDate.  A local getDailyPlan resolves before any other event; a
\* remote one stays in flight.
SelectDate(date) ==
    /\ date # selectedDate
    /\ selectedDate' = date
    /\ IF useFirestore(appUser)
       THEN /\ inFlight' = inFlight \cup {PlanLoad(appUser, date)}
            /\ UNCHANGED schedule
       ELSE /\ schedule' = ShownSchedule(LocalGetPlan(localPlans, appUser, date))
            /\ UNCHANGED inFlight
    /\ last' = Call("selectDate", [NoPlan EXCEPT !.userId = appUser, !.date = date],
                    RemoteTag(useFirestore(appUser), TRUE), FALSE, TRUE, NoPlan)
    /\ UNCHANGED planVars
    /\ PlannerFrame

\* The continuation of loadPlanForDate once its getDailyPlan has resolved, from
\* the remote store (ok) or from the Local Store after a remote failure.
PlanLoadResolves(call, ok) ==
    /\ call \in inFlight
    /\ call.op = "getDailyPlan"
    /\ inFlight' = inFlight \ {call}
    /\ schedule' = ShownSchedule(GetDailyPlanResult(call.userId, call.date, ok))
    /\ last' = Call("loadPlanForDate",
                    [NoPlan EXCEPT !.userId = call.userId, !.date = call.date],
                    RemoteTag(TRUE, ok), FALSE,
                    GetDailyPlanResult(call.userId, call.date, ok) # NoPlan,
                    GetDailyPlanResult(call.userId, call.date, ok))
    /\ UNCHANGED <<selectedDate, planVars>>
    /\ PlannerFrame

\* The store effect of db.saveDailyPlan(plan).
SavePlan(plan, ok) ==
    IF useFirestore(plan.userId) /\ ok
    THEN /\ remotePlans' = SetPlanDoc(remotePlans, plan)
         /\ UNCHANGED localPlans
    ELSE /\ localPlans' = LocalSavePlan(localPlans, plan)
         /\ UNCHANGED remotePlans

\* handleGenerate with the items generateDailyPlan returned, and handleReset
\* (planItems = 0): the plan shown is replaced and saved under selectedDate.
HandleGenerate(planItems, ok) ==
    LET plan == [userId |-> appUser, date |-> selectedDate, schedule |-> planItems]
    IN  /\ schedule' = planItems
        /\ SavePlan(plan, ok)
        /\ last' = Call(IF planItems = 0 THEN "handleReset" ELSE "handleGenerate", plan,
                        RemoteTag(useFirestore(appUser), ok), FALSE, TRUE, NoPlan)
        /\ UNCHANGED <<selectedDate, inFlight>>
        /\ PlannerFrame

\* ---------------------------------------------------------------------------
\* Specification of the task operations
\* ---------------------------------------------------------------------------
ConfigInit ==
    /\ isReal \in BOOLEAN
    /\ firestore \in BOOLEAN
    /\ auth \in BOOLEAN
    /\ firestore => isReal
    /\ auth => firestore

EmptyStores ==
    /\ localTasks = <<>>
    /\ remoteTasks = {}
    /\ localContacts = <<>>
    /\ remoteContacts = {}
    /\ localTemplates = <<>>
    /\ remoteTemplates = {}
    /\ localPlans = <<>>
    /\ remotePlans = {}
    /\ localUsers = <<>>
    /\ remoteUsers = {}
    /\ last = Call("init", NoTask, "none", FALSE, FALSE, <<>>)

\* The App before its first render: no task loaded, empty search box.
EmptyView ==
    /\ appTasks = <<>>
    /\ searchQuery = ""
    /\ now = 0
    /\ groupedTasks = NoGroups
    /\ progress = 0

\* The App's other state as its useState calls initialise it.
IdleUi ==
    /\ pomodoroTime = PomodoroStart
    /\ isTimerRunning = FALSE
    /\ weeklyData = <<>>
    /\ appUser = GUEST
    /\ emailContacts = <<>>
    /\ selectedDate = "2024-01-01"
    /\ schedule = 0
    /\ inFlight = {}

Init ==
    /\ ConfigInit
    /\ EmptyStores
    /\ EmptyView
    /\ IdleUi
    /\ currentUser = Stored("absent", NoProfile)
    /\ opsLeft = -1

\* Outcomes of a call's remote attempt: it can succeed or fail when the remote
\* backend is selected, and there is none to distinguish otherwise.
Outcomes(selected) == IF selected THEN BOOLEAN ELSE {TRUE}

\* Callers of updateTask pass a copy of a task they hold with fields other than
\* id and userId changed (App.updateTask, TaskItem): the owner of a stored task
\* never changes, and a task that is no longer stored can still be updated.
UpdateInputs == {t \in Task : StoredTask(t.id).userId \in {"", t.userId}}

Next ==
    \/ \E u \in UserIds : \E ok \in Outcomes(useFirestore(u)) : GetTasks(u, ok)
    \/ \E t \in Task : \E ok \in Outcomes(useFirestore(t.userId)) : AddTask(t, ok)
    \/ \E t \in UpdateInputs : \E ok \in Outcomes(useFirestore(t.userId)) :
          UpdateTask(t, ok)
    \/ \E id \in TaskIds : \E ok \in Outcomes(DeleteUsesRemote) : DeleteTask(id, ok)
    \/ \E u \in UserIds : \E queryOk \in Outcomes(useFirestore(u)) :
          \E deleted \in SUBSET QueryCompleted(remoteTasks, u) :
             ClearCompletedTasks(u, queryOk, deleted)

Spec == Init /\ [][Next]_vars

\* ---------------------------------------------------------------------------
\* Specification of the plan operations, MaxPlanOps calls long
\* ---------------------------------------------------------------------------
PlanInit ==
    /\ ConfigInit
    /\ EmptyStores
    /\ EmptyView
    /\ IdleUi
    /\ currentUser = Stored("absent", NoProfile)
    /\ opsLeft = MaxPlanOps

PlanNext ==
    \/ \E u \in UserIds, d \in Dates : \E ok \in Outcomes(useFirestore(u)) :
          GetDailyPlan(u, d, ok)
    \/ \E plan \in DailyPlan : \E ok \in Outcomes(useFirestore(plan.userId)) :
          SaveDailyPlan(plan, ok)

SpecPlans == PlanInit /\ [][PlanNext]_vars

\* ---------------------------------------------------------------------------
\* Specification of all entity operations, MaxServiceOps calls long
\* ---------------------------------------------------------------------------
ServiceInit ==
    /\ ConfigInit
    /\ EmptyStores
    /\ EmptyView
    /\ IdleUi
    /\ currentUser = Stored("absent", NoProfile)
    /\ opsLeft = MaxServiceOps

UpdateContactInputs ==
    {c \in EmailContact :
        \A d \in remoteContacts \cup Range(localContacts) :
            d.id = c.id => d.userId = c.userId}

ServiceNext ==
    \/ \E u \in UserIds : \E ok \in Outcomes(useFirestore(u)) : GetTasks(u, ok)
    \/ \E t \in Task : \E ok \in Outcomes(useFirestore(t.userId)) : AddTask(t, ok)
    \/ \E t \in UpdateInputs : \E ok \in Outcomes(useFirestore(t.userId)) :
          UpdateTask(t, ok)
    \/ \E id \in TaskIds : \E ok \in Outcomes(DeleteUsesRemote) : DeleteTask(id, ok)
    \/ \E u \in UserIds : \E queryOk \in Outcomes(useFirestore(u)) :
          \E deleted \in SUBSET QueryCompleted(remoteTasks, u) :
             ClearCompletedTasks(u, queryOk, deleted)
    \/ \E u \in UserIds : \E ok \in Outcomes(useFirestore(u)) : GetContacts(u, ok)
    \/ \E c \in EmailContact : \E ok \in Outcomes(useFirestore(c.userId)) :
          AddContact(c, ok)
    \/ \E c \in UpdateContactInputs : \E ok \in Outcomes(useFirestore(c.userId)) :
          UpdateContact(c, ok)
    \/ \E id \in ContactIds : \E ok \in Outcomes(DeleteUsesRemote) : DeleteContact(id, ok)
    \/ \E u \in UserIds : \E ok \in Outcomes(useFirestore(u)) :
          GetCustomTemplates(u, ok)
    \/ \E t \in PlanTemplate : \E ok \in Outcomes(TemplateUsesRemote(t)) :
          AddTemplate(t, ok)
    \/ \E id \in TemplateIds : \E ok \in Outcomes(DeleteUsesRemote) :
          DeleteTemplate(id, ok)
    \/ \E u \in UserIds, d \in Dates : \E ok \in Outcomes(useFirestore(u)) :
          GetDailyPlan(u, d, ok)
    \/ \E plan \in DailyPlan : \E ok \in Outcomes(useFirestore(plan.userId)) :
          SaveDailyPlan(plan, ok)

SpecService == ServiceInit /\ [][ServiceNext]_vars

\* ---------------------------------------------------------------------------
\* Specification of the auth operations, MaxAuthOps calls long
\* ---------------------------------------------------------------------------
AuthInit ==
    /\ ConfigInit
    /\ EmptyStores
    /\ EmptyView
    /\ IdleUi
    /\ currentUser \in {Stored("absent", NoProfile), Stored("corrupt", NoProfile)}
    /\ opsLeft = MaxAuthOps

\* What the signup form submits: the id is a uuid that registerUser replaces.
RegisterInputs ==
    [id : {"uuid"}, name : {"Ann"}, email : Emails, password : Passwords]

\* The profile the App holds (the stored one, or the one the last call
\* returned) with a new name (App.handleUpdateProfile).
ProfileInputs ==
    LET held == {p \in {currentUser.profile, last.result} :
                    p \in [id : STRING, name : STRING, email : STRING,
                           password : STRING] /\ p.id # ""}
    IN  {[p EXCEPT !.name = n] : p \in held, n \in {"Ann", "Bob"}}

AuthNext ==
    \/ GetCurrentUser
    \/ \E user \in ProfileInputs : \E ok \in Outcomes(useFirestore(user.id)) :
          UpdateUserProfile(user, ok)
    \/ \E user \in RegisterInputs, newId \in NewUserIds :
          \E authOk \in Outcomes(AuthUsesRemote) :
             \E docOk \in Outcomes(AuthUsesRemote /\ authOk) :
                RegisterUser(user, authOk, newId, docOk)
    \/ \E email \in Emails, pass \in Passwords :
          \E authOk \in Outcomes(AuthUsesRemote) :
             \E uid \in IF AuthUsesRemote /\ authOk THEN NewUserIds ELSE {"user_1"} :
                \E displayName \in IF AuthUsesRemote /\ authOk THEN {"", "Ann"} ELSE {""} :
                   LoginUser(email, pass, authOk, uid, displayName)
    \/ \E email \in Emails : \E ok \in Outcomes(AuthUsesRemote) : ResetPassword(email, ok)
    \/ \E providerName \in Providers : \E authOk \in Outcomes(AuthUsesRemote) :
          \E uid \in IF AuthUsesRemote /\ authOk THEN NewUserIds ELSE {"user_1"} :
             \E docOk \in Outcomes(AuthUsesRemote /\ authOk) :
                SocialLogin(providerName, authOk, uid, docOk)
    \/ \E ok \in Outcomes(AuthUsesRemote) : Logout(ok)

SpecAuth == AuthInit /\ [][AuthNext]_vars

\* ---------------------------------------------------------------------------
\* Specification of the task grouping: every task list and search query the
\* App can hold, rendered at an instant of the middle day
\* ---------------------------------------------------------------------------
ViewInit ==
    /\ isReal = FALSE
    /\ firestore = FALSE
    /\ auth = FALSE
    /\ EmptyStores
    /\ currentUser = Stored("absent", NoProfile)
    /\ opsLeft = -1
    /\ \E n \in 0..MaxViewTasks :
          \E fields \in [1..n -> ViewFields] : appTasks = ViewList(fields)
    /\ searchQuery \in SearchQueries
    /\ now = 0
    /\ groupedTasks = NoGroups
    /\ progress = 0
    /\ IdleUi

RenderTimes == {at \in Times : at \div TicksPerDay = 1}

ViewNext == \E at \in RenderTimes : Render(at)

SpecView == ViewInit /\ [][ViewNext]_vars

\* ---------------------------------------------------------------------------
\* Specification of the end-to-end scenario: create A, create B, list and
\* bucket, mark A completed, list and bucket again, on empty stores
\* ---------------------------------------------------------------------------
ScenarioScript == <<"add A", "add B", "list", "complete A", "list">>

\* The call the scenario makes next.
ScenarioStep ==
    IF opsLeft = 0 THEN "done" ELSE ScenarioScript[Len(ScenarioScript) - opsLeft + 1]

ScenarioInit ==
    /\ ConfigInit
    /\ EmptyStores
    /\ EmptyView
    /\ IdleUi
    /\ currentUser = Stored("absent", NoProfile)
    /\ opsLeft = Len(ScenarioScript)

\* A task as TaskInput creates it, with what the stores and the derivations
\* read of it.
ScenarioTask(id, userId, dueDate) ==
    [id |-> id, userId |-> userId, status |-> "TODO", dueDate |-> dueDate,
     createdAt |-> 0, title |-> "a"]

\* Task A has id 1 and task B id 2; today is the day of the renders.
TodayInstants == RenderTimes

YesterdayInstants == {at \in Times : at \div TicksPerDay = 0}

ScenarioNext ==
    \/ /\ ScenarioStep = "add A"
       /\ \E u \in UserIds, due \in TodayInstants : \E ok \in Outcomes(useFirestore(u)) :
             AddTask(ScenarioTask(1, u, due), ok)
    \/ /\ ScenarioStep = "add B"
       /\ \E due \in YesterdayInstants : \E ok \in Outcomes(useFirestore(StoredTask(1).userId)) :
             AddTask(ScenarioTask(2, StoredTask(1).userId, due), ok)
    \/ /\ ScenarioStep = "list"
       /\ \E at \in RenderTimes : \E ok \in Outcomes(useFirestore(StoredTask(1).userId)) :
             ListAndBucket(StoredTask(1).userId, ok, at)
    \/ /\ ScenarioStep = "complete A"
       /\ \E ok \in Outcomes(useFirestore(StoredTask(1).userId)) :
             UpdateTask([StoredTask(1) EXCEPT !.status = "COMPLETED"], ok)

SpecScenario == ScenarioInit /\ [][ScenarioNext]_vars

\* ---------------------------------------------------------------------------
\* Specification of the weekly heatmap: task lists made of two runs of equal
\* tasks, rendered at an instant of day HeatDay or of the day after
\* ---------------------------------------------------------------------------
HeatInit ==
    /\ isReal = FALSE
    /\ firestore = FALSE
    /\ auth = FALSE
    /\ EmptyStores
    /\ currentUser = Stored("absent", NoProfile)
    /\ opsLeft = -1
    /\ \E n \in 0..MaxHeatTasks, m \in 0..MaxHeatTasks, f \in HeatFields, g \in HeatFields :
          /\ m <= n
          /\ appTasks = ViewList([i \in 1..n |-> IF i <= m THEN f ELSE g])
    /\ searchQuery = ""
    /\ now = 0
    /\ groupedTasks = NoGroups
    /\ progress = 0
    /\ IdleUi

HeatRenderTimes ==
    {at \in 0..((HeatDay + 2) * TicksPerDay - 1) : at \div TicksPerDay >= HeatDay}

HeatNext == \E at \in HeatRenderTimes : RenderAnalytics(at)

SpecHeat == HeatInit /\ [][HeatNext]_vars

\* ---------------------------------------------------------------------------
\* Specification of the App: MaxAppOps handler calls and responses after the
\* mount
\* ---------------------------------------------------------------------------
\* The profile db.getCurrentUser() returned for useState: the guest's, or the
\* stored one of a signed-in user.
AppProfile(userId) ==
    IF userId = GUEST THEN GuestProfile
    ELSE [id |-> userId, name |-> "Ann", email |-> "ann@example.com", password |-> ""]

\* After the mount: the effect has called loadUserData(user.id).  The task
\* stores are empty; the remote store may hold a contact of user_1 saved in
\* an earlier session.
AppInit ==
    /\ ConfigInit
    /\ localTasks = <<>>
    /\ remoteTasks = {}
    /\ localContacts = <<>>
    /\ remoteContacts \in
          IF firestore THEN {{}, {[id |-> 1, userId |-> "user_1", isActive |-> TRUE]}}
          ELSE {{}}
    /\ localTemplates = <<>>
    /\ remoteTemplates = {}
    /\ localPlans = <<>>
    /\ remotePlans = {}
    /\ localUsers = <<>>
    /\ remoteUsers = {}
    /\ last = Call("init", NoTask, "none", FALSE, FALSE, <<>>)
    /\ EmptyView
    /\ pomodoroTime = PomodoroStart
    /\ isTimerRunning = FALSE
    /\ weeklyData = <<>>
    /\ selectedDate = "2024-01-01"
    /\ schedule = 0
    /\ emailContacts = <<>>
    /\ appUser \in {GUEST, "user_1"}
    /\ currentUser = Stored("profile", AppProfile(appUser))
    /\ inFlight = IF useFirestore(appUser)
                  THEN {AppCall("loadUserData", appUser, NoTask)}
                  ELSE {}
    /\ opsLeft = MaxAppOps

AppNext ==
    \/ \E call \in inFlight : \E tasksOk \in BOOLEAN, contactsOk \in BOOLEAN :
          LoadResolves(call, tasksOk, contactsOk)
    \/ \E userId \in UserIds : HandleLoginSuccess(userId)
    \/ \E ok \in Outcomes(AuthUsesRemote) : HandleLogout(ok)
    \/ \E id \in TaskIds : AppAddTask(id)
    \/ \E updatedTask \in Task : AppUpdateTask(updatedTask)
    \/ \E id \in TaskIds : AppDeleteTask(id)
    \/ \E call \in inFlight : \E ok \in BOOLEAN : TaskCallResolves(call, ok)

SpecApp == AppInit /\ [][AppNext]_vars

\* ---------------------------------------------------------------------------
\* Specification of the planner, MaxPlannerOps handler calls after the mount
\* ---------------------------------------------------------------------------
\* The plans of userId saved in earlier sessions: one per date at most, in the
\* store userId's mode selects.
SavedPlans(userId, schedules) ==
    SelectSeq([i \in 1..2 |->
                  LET d == <<"2024-01-01", "2024-01-02">>[i]
                  IN  [userId |-> userId, date |-> d, schedule |-> schedules[d]]],
              LAMBDA p : p.schedule # 0)

\* After the mount: both effects have called loadPlanForDate(selectedDate).
PlannerInit ==
    /\ ConfigInit
    /\ localTasks = <<>>
    /\ remoteTasks = {}
    /\ localContacts = <<>>
    /\ remoteContacts = {}
    /\ localTemplates = <<>>
    /\ remoteTemplates = {}
    /\ localUsers = <<>>
    /\ remoteUsers = {}
    /\ last = Call("init", NoTask, "none", FALSE, FALSE, <<>>)
    /\ EmptyView
    /\ pomodoroTime = PomodoroStart
    /\ isTimerRunning = FALSE
    /\ weeklyData = <<>>
    /\ emailContacts = <<>>
    /\ currentUser = Stored("absent", NoProfile)
    /\ opsLeft = MaxPlannerOps
    /\ appUser \in UserIds
    /\ selectedDate = "2024-01-01"
    /\ \E schedules \in [Dates -> 0..MaxSchedule] :
          IF useFirestore(appUser)
          THEN /\ remotePlans = {[docId |-> PlanDocId(p), data |-> p] :
                                   p \in Range(SavedPlans(appUser, schedules))}
               /\ localPlans = <<>>
               /\ schedule = 0
               /\ inFlight = {PlanLoad(appUser, selectedDate)}
          ELSE /\ remotePlans = {}
               /\ localPlans = SavedPlans(appUser, schedules)
               /\ schedule = ShownSchedule(LocalGetPlan(localPlans, appUser, selectedDate))
               /\ inFlight = {}

PlannerNext ==
    \/ \E date \in Dates : SelectDate(date)
    \/ \E call \in inFlight : \E ok \in BOOLEAN : PlanLoadResolves(call, ok)
    \/ \E planItems \in 0..MaxSchedule : \E ok \in Outcomes(useFirestore(appUser)) :
          HandleGenerate(planItems, ok)

SpecPlanner == PlannerInit /\ [][PlannerNext]_vars

\* ---------------------------------------------------------------------------
\* Specification of the pomodoro timer: ticks and toggles from a new session
\* ---------------------------------------------------------------------------
TimerInit ==
    /\ isReal = FALSE
    /\ firestore = FALSE
    /\ auth = FALSE
    /\ EmptyStores
    /\ EmptyView
    /\ IdleUi
    /\ currentUser = Stored("absent", NoProfile)
    /\ opsLeft = -1

TimerNext == ToggleTimer \/ Tick

SpecTimer == TimerInit /\ [][TimerNext]_vars

\* ---------------------------------------------------------------------------
\* Properties of the task operations
\* ---------------------------------------------------------------------------
IsCompleted(t) == t.status = "COMPLETED"

NotCompleted(t) == t.status # "COMPLETED"

\* A read of userId's tasks is served by the store the last call wrote to:
\* every outcome when remote mode is not selected, else the remote read
\* succeeds exactly when the last call's remote write did.
SameStore(userId, remote, ok) == useFirestore(userId) => (ok <=> remote = "ok")

\* C1 (as claimed): after addTask(t) resolves, getTasks(t.userId) returns a
\* list containing t, whatever the outcome of its remote read.
C1_AddThenListAnyOutcome ==
    last.op = "addTask" =>
        \A ok \in BOOLEAN : last.arg \in Range(GetTasksResult(last.arg.userId, ok))

\* C1 (amended): after addTask(t) resolves, a getTasks(t.userId) served by the
\* store that addTask wrote to returns a list containing t.
C1_AddThenListSameStore ==
    last.op = "addTask" =>
        \A ok \in BOOLEAN :
            SameStore(last.arg.userId, last.remote, ok) =>
                last.arg \in Range(GetTasksResult(last.arg.userId, ok))

C1_Witness ==
    /\ last.op = "addTask"
    /\ last.remote = "ok"
    /\ last.arg \in Range(GetTasksResult(last.arg.userId, TRUE))
    /\ localTasks # <<>>

\* C2 (as claimed): deleteTask(id) is idempotent: after deleting a stored task
\* getTasks of its owner no longer contains the id, and a deleteTask(id) that
\* directly follows a deleteTask(id) leaves both stores unchanged.
C2_DeleteIdempotent ==
    [][last'.op = "deleteTask" =>
          /\ last'.arg.userId # "" =>
                \A ok \in BOOLEAN :
                    ~HasDoc(Range(GetTasksFrom(localTasks', remoteTasks', last'.arg.userId, ok)), last'.arg.id)
          /\ (last.op = "deleteTask" /\ last.arg.id = last'.arg.id) =>
                UNCHANGED taskVars]_vars

\* C3 (as claimed): a task call uses the remote backend iff the backend was
\* initialized and the owner of the entity is not the guest; a call on a
\* guest-owned task never touches the remote store.
C3_ModeSelection ==
    (/\ last.op \in {"getTasks", "addTask", "updateTask", "deleteTask",
                     "clearCompletedTasks"}
     /\ last.arg.userId # "") =>
        (last.remote # "none" <=> (isReal /\ firestore /\ last.arg.userId # GUEST))

\* What clearCompletedTasks(userId) must leave in a list of userId's tasks.
ClearedList(before, after) ==
    /\ \A t \in Range(after) : NotCompleted(t)
    /\ SelectSeq(after, NotCompleted) = SelectSeq(before, NotCompleted)

\* C4 (as claimed): after clearCompletedTasks(u) resolves getTasks(u) returns
\* no COMPLETED task and returns every other task of u unchanged, whatever the
\* outcome of its remote read.
C4_ClearThenListAnyOutcome ==
    [][last'.op = "clearCompletedTasks" =>
          \A ok \in BOOLEAN :
              ClearedList(GetTasksFrom(localTasks, remoteTasks, last'.arg.userId, ok),
                          GetTasksFrom(localTasks', remoteTasks', last'.arg.userId, ok))]_vars

\* C4 (amended): the same, for a getTasks(u) served by the store in which the
\* clear completed.
C4_ClearThenListSameStore ==
    [][last'.op = "clearCompletedTasks" =>
          \A ok \in BOOLEAN :
              SameStore(last'.arg.userId, last'.remote, ok) =>
                  ClearedList(GetTasksFrom(localTasks, remoteTasks, last'.arg.userId, ok),
                              GetTasksFrom(localTasks', remoteTasks', last'.arg.userId, ok))]_vars

C4_Witness ==
    /\ last.op = "clearCompletedTasks"
    /\ last.hit
    /\ last.remote = "fail"
    /\ LocalGetTasks(localTasks, last.arg.userId) # <<>>

\* The COMPLETED tasks of userId held by each store.
LocalCompleted(tasks, userId) ==
    {t \in Range(tasks) : t.userId = userId /\ IsCompleted(t)}

\* C5 (as claimed): clearCompletedTasks(u) is all or nothing in each store:
\* when it resolves, a store holds either none of the COMPLETED tasks of u it
\* held before, or all of them.
C5_ClearAtomic ==
    [][last'.op = "clearCompletedTasks" =>
          LET u == last'.arg.userId
          IN  /\ QueryCompleted(remoteTasks', u) \in {{}, QueryCompleted(remoteTasks, u)}
              /\ LocalCompleted(localTasks', u)
                    \in {{}, LocalCompleted(localTasks, u)}]_vars

\* An updateTask(t') that directly follows addTask(t) for the same id and owner.
UpdateAfterAdd ==
    /\ last.op = "addTask"
    /\ last'.op = "updateTask"
    /\ last'.arg.id = last.arg.id
    /\ last'.arg.userId = last.arg.userId

\* getTasks then returns the updated record for the id and not the created one.
ListsUpdated(list, created, updated) ==
    /\ updated \in Range(list)
    /\ created # updated => created \notin Range(list)

\* C6 (as claimed): an updateTask(t') after addTask(t) observes the create,
\* whichever of the two ran remotely or fell back: getTasks returns t'.
C6_UpdateObservesCreateAlways ==
    [][UpdateAfterAdd =>
          \A ok \in BOOLEAN :
              ListsUpdated(GetTasksFrom(localTasks', remoteTasks', last'.arg.userId, ok), last.arg, last'.arg)]_vars

\* C6 (amended): the update observes the create unless the create was written
\* remotely and the update fell back to the Local Store; then it is a no-op.
C6_UpdateObservesCreate ==
    [][UpdateAfterAdd =>
          IF last.remote = "ok" /\ last'.remote = "fail"
          THEN /\ UNCHANGED <<localTasks, remoteTasks>>
               /\ ~last'.hit
          ELSE \A ok \in BOOLEAN :
                  SameStore(last'.arg.userId, last'.remote, ok) =>
                      ListsUpdated(GetTasksFrom(localTasks', remoteTasks', last'.arg.userId, ok),
                                   last.arg, last'.arg)]_vars

C6_Witness ==
    /\ last.op = "updateTask"
    /\ last.hit
    /\ last.remote = "fail"
    /\ last.arg \in Range(localTasks)

\* C10: when the remote write of addTask fails the task is in the Local Store
\* and a local getTasks returns it; once addTask(t) has resolved t is in the
\* remote store or in the Local Store.
C10_AddIsDurable ==
    last.op = "addTask" =>
        /\ last.remote = "fail" =>
              last.arg \in Range(LocalGetTasks(localTasks, last.arg.userId))
        /\ last.arg \in remoteTasks \/ last.arg \in Range(localTasks)

C10_Witness ==
    /\ last.op = "addTask"
    /\ last.remote = "fail"
    /\ localTasks[1] = last.arg

\* C11: getTasks(u) returns only tasks whose userId is u, whether the remote
\* read served it or the local fallback did.
C11_ListOnlyOwnTasks ==
    last.op = "getTasks" =>
        \A i \in 1..Len(last.result) : last.result[i].userId = last.arg.userId

\* A fallback read that returned tasks out of a Local Store which also holds
\* another user's.
C11_Witness ==
    /\ last.op = "getTasks"
    /\ last.remote = "fail"
    /\ last.result # <<>>
    /\ \E t \in Range(localTasks) : t.userId # last.arg.userId

\* C15: an updateTask that ran on the Local Store resolves without error,
\* replaces the whole record whose id matches and leaves every other stored
\* task, the length of the list and the remote store unchanged; when no
\* stored task has the id the Local Store is unchanged.
C15_LocalUpdateFrame ==
    [][(last'.op = "updateTask" /\ last'.remote # "ok") =>
          /\ ~last'.threw
          /\ remoteTasks' = remoteTasks
          /\ Len(localTasks') = Len(localTasks)
          /\ \A i \in 1..Len(localTasks) :
                localTasks'[i] = IF localTasks[i].id = last'.arg.id THEN last'.arg
                                 ELSE localTasks[i]
          /\ ~HasDoc(Range(localTasks), last'.arg.id) => localTasks' = localTasks]_vars

\* A local update that replaced the second of two stored tasks.
C15_Witness ==
    /\ last.op = "updateTask"
    /\ last.remote # "ok"
    /\ last.hit
    /\ Len(localTasks) = 2
    /\ localTasks[2] = last.arg
    /\ localTasks[1].id # last.arg.id

\* The elements of list at the positions kept, in the order of list.
Pick(list, kept) ==
    [k \in 1..Cardinality(kept) |->
        list[CHOOSE i \in kept : Cardinality({j \in kept : j <= i}) = k]]

\* C28: a deleteTask(id) that ran on the Local Store removes the tasks with
\* that id and leaves every other task, their order and the remote store
\* unchanged; a clearCompletedTasks(u) leaves the COMPLETED tasks of every
\* other user in place in both stores, and on the Local Store the order of
\* the tasks it keeps.
C28_DeleteFrames ==
    [][/\ (last'.op = "deleteTask" /\ last'.remote # "ok") =>
             /\ remoteTasks' = remoteTasks
             /\ localTasks' =
                    Pick(localTasks,
                         {i \in 1..Len(localTasks) : localTasks[i].id # last'.arg.id})
       /\ last'.op = "clearCompletedTasks" =>
             /\ \A v \in UserIds \ {last'.arg.userId} :
                   /\ LocalGetTasks(localTasks', v) = LocalGetTasks(localTasks, v)
                   /\ QueryTasks(remoteTasks', v) = QueryTasks(remoteTasks, v)
             /\ last'.remote # "ok" =>
                   \E kept \in SUBSET (1..Len(localTasks)) :
                       localTasks' = Pick(localTasks, kept)]_vars

\* A local clearCompletedTasks that removed a task and left a COMPLETED task
\* of another user behind.
C28_Witness ==
    /\ last.op = "clearCompletedTasks"
    /\ last.remote # "ok"
    /\ last.hit
    /\ \E t \in Range(localTasks) : t.userId # last.arg.userId /\ IsCompleted(t)

\* ---------------------------------------------------------------------------
\* Properties of the plan operations
\* ---------------------------------------------------------------------------
LocalPlanCount(plans, userId, date) ==
    Cardinality({i \in 1..Len(plans) : SamePair(plans[i], userId, date)})

RemotePlanCount(docs, userId, date) ==
    Cardinality({d \in docs : SamePair(d.data, userId, date)})

\* A saveDailyPlan that directly follows a saveDailyPlan for the same
\* (userId, date) with a different schedule.
SecondSave ==
    /\ last.op = "saveDailyPlan"
    /\ last'.op = "saveDailyPlan"
    /\ SamePair(last.arg, last'.arg.userId, last'.arg.date)
    /\ last.arg.schedule # last'.arg.schedule

\* C7 (as claimed): after any saveDailyPlan no (userId, date) pair has more
\* than one stored plan; saving two plans for one pair leaves exactly one
\* stored plan for it and getDailyPlan returns the second, whatever the outcome
\* of its remote read.
C7_UpsertAnyOutcome ==
    [][last'.op = "saveDailyPlan" =>
          /\ \A u \in UserIds, d \in Dates :
                LocalPlanCount(localPlans', u, d) + RemotePlanCount(remotePlans', u, d) <= 1
          /\ SecondSave =>
                LET u == last'.arg.userId
                    d == last'.arg.date
                IN  /\ LocalPlanCount(localPlans', u, d)
                          + RemotePlanCount(remotePlans', u, d) = 1
                    /\ \A ok \in BOOLEAN :
                          GetDailyPlanFrom(localPlans', remotePlans', u, d, ok)
                              = last'.arg]_vars

\* C7 (amended): after any saveDailyPlan each store holds at most one plan per
\* (userId, date) pair; saving two plans for one pair leaves exactly one plan
\* for it in the store the second save wrote to, and a getDailyPlan served by
\* that store returns the second.
C7_UpsertPerStore ==
    [][last'.op = "saveDailyPlan" =>
          /\ \A u \in UserIds, d \in Dates :
                /\ LocalPlanCount(localPlans', u, d) <= 1
                /\ RemotePlanCount(remotePlans', u, d) <= 1
          /\ SecondSave =>
                LET u == last'.arg.userId
                    d == last'.arg.date
                IN  /\ IF last'.remote = "ok"
                       THEN RemotePlanCount(remotePlans', u, d) = 1
                       ELSE LocalPlanCount(localPlans', u, d) = 1
                    /\ \A ok \in BOOLEAN :
                          SameStore(u, last'.remote, ok) =>
                              GetDailyPlanFrom(localPlans', remotePlans', u, d, ok)
                                  = last'.arg]_vars

C7_Witness ==
    /\ last.op = "saveDailyPlan"
    /\ last.hit
    /\ last.remote # "ok"
    /\ LocalGetPlan(localPlans, last.arg.userId, last.arg.date) = last.arg
    /\ Len(localPlans) > 1

\* ---------------------------------------------------------------------------
\* Properties of all entity operations
\* ---------------------------------------------------------------------------
EntityOps ==
    {"getTasks", "addTask", "updateTask", "deleteTask", "clearCompletedTasks",
     "getContacts", "addContact", "updateContact", "deleteContact",
     "getCustomTemplates", "addTemplate", "deleteTemplate",
     "getDailyPlan", "saveDailyPlan"}

\* The step re-executed the call named by last' on the Local Store.
RanOnLocalStore ==
    LET op == last'.op
        a  == last'.arg
    IN  /\ op = "getTasks" => last'.result = LocalGetTasks(localTasks, a.userId)
        /\ op = "addTask" => localTasks' = LocalAddTask(localTasks, a)
        /\ op = "updateTask" => localTasks' = LocalUpdateTask(localTasks, a)
        /\ op = "deleteTask" => localTasks' = LocalDeleteTask(localTasks, a.id)
        /\ op = "clearCompletedTasks" =>
              localTasks' = LocalClearCompleted(localTasks, a.userId)
        /\ op = "getContacts" => last'.result = LocalGetContacts(localContacts, a.userId)
        /\ op = "addContact" => localContacts' = LocalAddContact(localContacts, a)
        /\ op = "updateContact" => localContacts' = LocalUpdateContact(localContacts, a)
        /\ op = "deleteContact" => localContacts' = LocalDeleteContact(localContacts, a.id)
        /\ op = "getCustomTemplates" =>
              last'.result = LocalGetTemplates(localTemplates, a.userId)
        /\ op = "addTemplate" => localTemplates' = LocalAddTemplate(localTemplates, a)
        /\ op = "deleteTemplate" =>
              localTemplates' = LocalDeleteTemplate(localTemplates, a.id)
        /\ op = "getDailyPlan" => last'.result = LocalGetPlan(localPlans, a.userId, a.date)
        /\ op = "saveDailyPlan" => localPlans' = LocalSavePlan(localPlans, a)

\* C8: no entity operation fails to its caller, and a call whose remote
\* attempt failed has run the same operation on the Local Store.
C8_RemoteFailureFallsBack ==
    [][last'.op \in EntityOps =>
          /\ ~last'.threw
          /\ last'.remote = "fail" => RanOnLocalStore]_vars

C8_Witness ==
    /\ last.op = "clearCompletedTasks"
    /\ last.remote = "fail"
    /\ last.hit
    /\ ~last.threw
    /\ opsLeft = 0

\* ---------------------------------------------------------------------------
\* Properties of the auth operations
\* ---------------------------------------------------------------------------
\* C9 (as claimed): only registerUser and loginUser can fail to their caller;
\* resetPassword, socialLogin, logout, updateUserProfile and getCurrentUser
\* resolve normally even when the remote provider fails.
C9_OnlyRegisterAndLoginFail ==
    last.threw => last.op \in {"registerUser", "loginUser"}

\* The calls that write a user profile, and the profile's places in the Local
\* Store.
ProfileWriters == {"updateUserProfile", "registerUser", "socialLogin"}

localProfiles == <<localUsers, currentUser>>

\* C12 (as claimed): remote and local storage are alternatives within one
\* call: a call whose remote write succeeded leaves the Local Store unchanged,
\* and the Local Store is written only when remote mode is not selected or the
\* remote attempt failed.
C12_RemoteAndLocalAlternatives ==
    [][last'.op \in ProfileWriters =>
          /\ remoteUsers' # remoteUsers => localProfiles' = localProfiles
          /\ localProfiles' # localProfiles => last'.remote # "ok"]_vars

\* C13: getCurrentUser never fails and returns a profile, which is the stored
\* current user afterwards; when no profile is stored (none, or an
\* unparseable one) it is the guest profile with id 'guest-user'; a stored
\* profile is returned as it is, so a following getCurrentUser returns the
\* same profile.
C13_GetCurrentUserTotal ==
    [][last'.op = "getCurrentUser" =>
          /\ ~last'.threw
          /\ last'.result.id # ""
          /\ currentUser' = Stored("profile", last'.result)
          /\ currentUser.kind # "profile" =>
                last'.result = GuestProfile /\ last'.result.id = "guest-user"
          /\ currentUser.kind = "profile" => last'.result = currentUser.profile
          /\ last.op = "getCurrentUser" => last'.result = last.result]_vars

\* The second of two getCurrentUser calls, returning the guest profile the
\* first one persisted.
C13_Witness ==
    /\ last.op = "getCurrentUser"
    /\ last.hit
    /\ last.result = GuestProfile
    /\ currentUser = Stored("profile", GuestProfile)
    /\ opsLeft = MaxAuthOps - 2

\* C14 (as claimed): after a logout, whether or not the remote sign-out
\* succeeded, the next getCurrentUser returns a profile whose id is
\* 'guest-user'.
C14_LogoutRevertsToGuest ==
    [][(last.op = "logout" /\ last'.op = "getCurrentUser") =>
          last'.result.id = GUEST]_vars

\* C16: in local mode a registerUser whose email is already in the local user
\* table fails, and leaves the user table and the stored current user
\* unchanged.
C16_DuplicateEmailRejected ==
    [][(/\ last'.op = "registerUser"
        /\ ~AuthUsesRemote
        /\ \E i \in 1..Len(localUsers) : localUsers[i].email = last'.arg.email) =>
          /\ last'.threw
          /\ localUsers' = localUsers
          /\ currentUser' = currentUser]_vars

\* A rejected registration while another profile is the stored current user.
C16_Witness ==
    /\ last.op = "registerUser"
    /\ last.remote = "none"
    /\ last.threw
    /\ Len(localUsers) = 1
    /\ localUsers[1].email = last.arg.email
    /\ currentUser.kind = "profile"
    /\ currentUser.profile.email # last.arg.email

\* C17: in the local auth path loginUser with demo@example.com / password
\* succeeds whatever the local user table holds, resolves to a profile whose id
\* is 'guest-user' and stores it as the current user.
C17_DemoLoginAlwaysSucceeds ==
    [][(/\ last'.op = "loginUser"
        /\ ~AuthUsesRemote
        /\ last'.arg.email = "demo@example.com"
        /\ last'.arg.password = "password") =>
          /\ ~last'.threw
          /\ last'.result.id = "guest-user"
          /\ currentUser' = Stored("profile", last'.result)
          /\ localUsers' = localUsers]_vars

\* A demo login while the user table holds a user registered with the demo
\* email and another password.
C17_Witness ==
    /\ last.op = "loginUser"
    /\ last.remote = "none"
    /\ ~last.threw
    /\ last.arg.email = "demo@example.com"
    /\ last.arg.password = "password"
    /\ \E i \in 1..Len(localUsers) :
          localUsers[i].email = "demo@example.com" /\ localUsers[i].password = "secret"
    /\ currentUser.profile.id = GUEST

SignIns == {"registerUser", "loginUser", "socialLogin"}

\* C26 (as claimed): after a successful registerUser, loginUser or
\* socialLogin, in local or remote mode, the profile the call returned is the
\* stored current user, so a following getCurrentUser returns a profile with
\* the same id.
C26_SignInIsCurrentUser ==
    [][(last'.op \in SignIns /\ ~last'.threw) =>
          /\ currentUser'.kind = "profile"
          /\ currentUser'.profile.id = last'.result.id]_vars

\* ---------------------------------------------------------------------------
\* Properties of the task grouping and of the progress
\* ---------------------------------------------------------------------------
Rendered == last.op = "render"

InBucket(t, name) == t \in Range(groupedTasks[name])

DayOf(instant) == instant \div TicksPerDay

\* The tasks bucketing is applied to: those the search filter lets through.
Searched(t) == searchQuery = "" \/ (searchQuery = "b" /\ t.title = "B")

\* C18: at the instant now of a render, a non-completed task with a valid due
\* timestamp that passes the search filter is in overdue iff due < now and its
\* due day is not today, in today iff its due day is today (even when its time
\* of day has passed), in upcoming iff its due day is after today; a task with
\* status COMPLETED is in completed whatever its due date.
C18_Bucketing ==
    Rendered =>
        \A i \in 1..Len(appTasks) :
            LET t == appTasks[i]
            IN  /\ (Searched(t) /\ t.status # "COMPLETED" /\ t.dueDate # InvalidDate) =>
                      /\ InBucket(t, "overdue") <=>
                            (t.dueDate < now /\ DayOf(t.dueDate) # DayOf(now))
                      /\ InBucket(t, "today") <=> DayOf(t.dueDate) = DayOf(now)
                      /\ InBucket(t, "upcoming") <=> DayOf(t.dueDate) > DayOf(now)
                /\ (Searched(t) /\ t.status = "COMPLETED") => InBucket(t, "completed")

\* A render that put a task due earlier today in today, one due yesterday in
\* overdue and a completed one due yesterday in completed.
C18_Witness ==
    /\ Rendered
    /\ \E t \in Range(groupedTasks.today) : t.dueDate < now
    /\ \E t \in Range(groupedTasks.overdue) : DayOf(t.dueDate) = DayOf(now) - 1
    /\ \E t \in Range(groupedTasks.completed) : DayOf(t.dueDate) = DayOf(now) - 1

\* The tasks with a valid due timestamp come in ascending order of it, and
\* those with equal timestamps in the order of the input list (ids are the
\* positions in it).
AscendingByDue(bucket) ==
    \A i, j \in 1..Len(bucket) :
        (i < j /\ bucket[i].dueDate # InvalidDate /\ bucket[j].dueDate # InvalidDate) =>
            \/ bucket[i].dueDate < bucket[j].dueDate
            \/ bucket[i].dueDate = bucket[j].dueDate /\ bucket[i].id < bucket[j].id

DescendingByCreatedAt(bucket) ==
    \A i, j \in 1..Len(bucket) :
        i < j =>
            \/ bucket[i].createdAt > bucket[j].createdAt
            \/ bucket[i].createdAt = bucket[j].createdAt /\ bucket[i].id < bucket[j].id

\* C19 (as claimed): each of overdue, today and upcoming is returned sorted
\* ascending by due timestamp and completed sorted descending by creation
\* timestamp, tasks with equal sort keys keeping their order of the input list.
C19_BucketsSorted ==
    Rendered =>
        /\ AscendingByDue(groupedTasks.overdue)
        /\ AscendingByDue(groupedTasks.today)
        /\ AscendingByDue(groupedTasks.upcoming)
        /\ DescendingByCreatedAt(groupedTasks.completed)

\* round(100 * c / n), halves up.
RoundedPercent(c, n) == CHOOSE k \in 0..100 : 2 * n * k - n <= 200 * c /\ 200 * c < 2 * n * k + n

CountCompleted(list) == Cardinality({i \in 1..Len(list) : list[i].status = "COMPLETED"})

\* C20 (as claimed): today-progress is round(100 * C / N) with N the number
\* of tasks in the today bucket and C the number of those whose status is
\* COMPLETED, and 0 when N = 0.
C20_ProgressOverTodayBucket ==
    Rendered =>
        progress = IF Len(groupedTasks.today) = 0 THEN 0
                   ELSE RoundedPercent(CountCompleted(groupedTasks.today),
                                       Len(groupedTasks.today))

\* The tasks of the whole list whose due day is the day of the render.
DueToday == {i \in 1..Len(appTasks) :
                /\ appTasks[i].dueDate # InvalidDate
                /\ DayOf(appTasks[i].dueDate) = DayOf(now)}

\* C20: today-progress is round(100 * C / N), halves up, with N the number
\* of tasks of the whole list whose due day is today, whatever their status and
\* the search query, and C the number of those whose status is COMPLETED; it
\* is 0 when N = 0, 33 for 3 such tasks with 1 completed, and always an integer
\* in 0..100.
C20_ProgressOverDueToday ==
    Rendered =>
        LET n == Cardinality(DueToday)
            c == Cardinality({i \in DueToday : appTasks[i].status = "COMPLETED"})
        IN  /\ progress \in 0..100
            /\ n = 0 => progress = 0
            /\ n # 0 => progress = RoundedPercent(c, n)
            /\ (n = 3 /\ c = 1) => progress = 33

\* Three tasks due today, one of them completed and one filtered out by the
\* search: progress 33.
C20_Witness ==
    /\ Rendered
    /\ Cardinality(DueToday) = 3
    /\ Cardinality({i \in DueToday : appTasks[i].status = "COMPLETED"}) = 1
    /\ Len(groupedTasks.today) = 1
    /\ progress = 33

BucketNames == {"overdue", "today", "upcoming", "completed"}

\* C23: bucketing and progress never fail on a task whose due date is
\* unparseable: every list has a result at every instant, the result has
\* the four buckets and a progress in 0..100, and a non-completed task with an
\* invalid due date that passes the search filter is in upcoming and neither
\* in overdue nor in today.
C23_InvalidDateIsUpcoming ==
    /\ ~Rendered => \A at \in Times : GroupTasks(appTasks, searchQuery, at) # {}
    /\ Rendered =>
          /\ DOMAIN groupedTasks = BucketNames
          /\ progress \in 0..100
          /\ \A i \in 1..Len(appTasks) :
                LET t == appTasks[i]
                IN  (Searched(t) /\ t.status # "COMPLETED" /\ t.dueDate = InvalidDate) =>
                        /\ InBucket(t, "upcoming")
                        /\ ~InBucket(t, "overdue")
                        /\ ~InBucket(t, "today")

\* A render of a list whose three tasks all have an invalid due date, one of
\* them completed.
C23_Witness ==
    /\ Rendered
    /\ Len(appTasks) = 3
    /\ \A i \in 1..3 : appTasks[i].dueDate = InvalidDate
    /\ Len(groupedTasks.upcoming) = 2
    /\ Len(groupedTasks.completed) = 1

\* How many times the task with an id occurs in the four buckets together.
Occurrences(id) ==
    Cardinality({<<name, k>> \in BucketNames \X (1..Len(appTasks)) :
                    k <= Len(groupedTasks[name]) /\ groupedTasks[name][k].id = id})

\* C27: the four buckets partition the search-matching tasks: a task of the
\* list that matches the search query occurs exactly once in the four buckets
\* together, one that does not match occurs in none, and every element of a
\* bucket is a task of the list.
C27_BucketsPartition ==
    Rendered =>
        /\ \A i \in 1..Len(appTasks) :
              Occurrences(appTasks[i].id) = IF Searched(appTasks[i]) THEN 1 ELSE 0
        /\ \A name \in BucketNames :
              /\ Len(groupedTasks[name]) <= Len(appTasks)
              /\ Range(groupedTasks[name]) \subseteq Range(appTasks)

\* A render under the query "b" of three tasks: one filtered out, the two
\* others in different buckets.
C27_Witness ==
    /\ Rendered
    /\ searchQuery = "b"
    /\ Len(appTasks) = 3
    /\ \E i \in 1..3 : ~Searched(appTasks[i])
    /\ Len(groupedTasks.overdue) = 1
    /\ Len(groupedTasks.completed) = 1

\* ---------------------------------------------------------------------------
\* Properties of the end-to-end scenario
\* ---------------------------------------------------------------------------
\* The bucket holds a task with the id.
HasId(bucket, id) == \E k \in 1..Len(bucket) : bucket[k].id = id

AInTodayBInOverdue(groups) ==
    /\ HasId(groups.today, 1)
    /\ HasId(groups.overdue, 2)

ACompletedOnly(groups) ==
    /\ HasId(groups.completed, 1)
    /\ ~HasId(groups.overdue, 1)
    /\ ~HasId(groups.today, 1)
    /\ ~HasId(groups.upcoming, 1)

\* C21 (as claimed): after creating task A due today and task B due
\* yesterday for user U, listing and bucketing puts A in today and B in
\* overdue; after updateTask marks A COMPLETED, listing and bucketing again
\* puts A in completed and in no other bucket, and today-progress is 100.
C21_EndToEnd ==
    Rendered =>
        /\ opsLeft = 2 => AInTodayBInOverdue(groupedTasks)
        /\ opsLeft = 0 => ACompletedOnly(groupedTasks) /\ progress = 100

\* C21 (amended): the same, when the listing is served by the store that
\* served every call before it that wrote: the two creates for the first
\* listing, the two creates and the update for the second.
C21_EndToEndSameStore ==
    [][last'.op = "render" =>
          LET servedRemotely == last'.remote = "ok"
              createdThere   == IF servedRemotely THEN localTasks' = <<>>
                                ELSE remoteTasks' = {}
          IN  /\ (opsLeft' = 2 /\ createdThere) => AInTodayBInOverdue(groupedTasks')
              /\ (opsLeft' = 0 /\ createdThere /\ (last.remote = "ok") = servedRemotely) =>
                    ACompletedOnly(groupedTasks') /\ progress' = 100]_vars

\* The scenario run on the remote store from the first call to the last.
C21_Witness ==
    /\ Rendered
    /\ opsLeft = 0
    /\ last.remote = "ok"
    /\ localTasks = <<>>
    /\ HasId(groupedTasks.completed, 1)
    /\ HasId(groupedTasks.overdue, 2)
    /\ progress = 100

\* ---------------------------------------------------------------------------
\* Properties of the weekly heatmap
\* ---------------------------------------------------------------------------
\* The tasks created or due on a calendar day, each once.
ActiveOn(day) ==
    {i \in 1..Len(appTasks) :
        \/ DayOf(appTasks[i].createdAt) = day
        \/ appTasks[i].dueDate # InvalidDate /\ DayOf(appTasks[i].dueDate) = day}

C24_ListReconciled ==
    inFlight = {} =>
        \E ok \in BOOLEAN : Range(appTasks) = Range(GetTasksResult(appUser, ok))

\* C25 (as claimed): once every loadUserData has resolved, the task and
\* contact lists shown hold only entities owned by the active user.
C25_ListsOfActiveUser ==
    (\A call \in inFlight : call.op # "loadUserData") =>
        /\ \A i \in 1..Len(appTasks) : appTasks[i].userId = appUser
        /\ \A i \in 1..Len(emailContacts) : emailContacts[i].userId = appUser

\* ---------------------------------------------------------------------------
\* Properties of the planner
\* ---------------------------------------------------------------------------
PlanLoadsInFlight == {call \in inFlight : call.op = "getDailyPlan"}

\* C29 (as claimed): once every getDailyPlan call has resolved, the schedule
\* and notes shown are those stored for the selected date (in the store a read
\* can be served by), whatever order the responses arrived in, so that a
\* following generate or reset saves under the date whose plan is shown.
C29_ShownPlanIsOfSelectedDate ==
    PlanLoadsInFlight = {} =>
        \E ok \in BOOLEAN :
            schedule = ShownSchedule(GetDailyPlanResult(appUser, selectedDate, ok))

\* ---------------------------------------------------------------------------
\* Properties of the pomodoro timer
\* ---------------------------------------------------------------------------
\* C30: the countdown stays within 0..1500 seconds; a step changes it only by
\* a tick, which takes one second off while the timer is running and the
\* countdown is above 0; whenever the countdown is 0 the timer is not running,
\* also after a toggle at 0.
C30_CountdownInRange ==
    /\ [](/\ pomodoroTime \in 0..1500
          /\ pomodoroTime = 0 => ~isTimerRunning)
    /\ [][/\ pomodoroTime' # pomodoroTime =>
                /\ last'.op = "tick"
                /\ isTimerRunning
                /\ pomodoroTime > 0
                /\ pomodoroTime' = pomodoroTime - 1
          /\ last'.op = "tick" => pomodoroTime' = pomodoroTime - 1
          /\ (last'.op = "toggleTimer" /\ pomodoroTime = 0) => ~isTimerRunning']_vars

\* A toggle at 0, after the countdown ran out.
C30_Witness ==
    /\ last.op = "toggleTimer"
    /\ last.arg = NoTask
    /\ pomodoroTime = 0
    /\ ~isTimerRunning

====
